---- MODULE Spec2Model ----
(***************************************************************************)
(* Model of the installation-token resolution and caching subsystem of    *)
(* github-mcp-server: InstallationTokenStore.GetGitHubToken and            *)
(* createInstallationToken (internal/ghmcp/tokenstore.go), called by       *)
(* goroutines that interleave at the mutex and at the outbound mint        *)
(* request, with a clock and the credential-issuing endpoint as the        *)
(* environment.                                                            *)
(*                                                                         *)
(* Strings the code inspects (mapping values, credentials) are sequences   *)
(* of one-character strings; caller keys are only compared for equality    *)
(* and stay TLA+ strings.  Time is counted in whole minutes.               *)
(***************************************************************************)
EXTENDS Integers, Sequences, FiniteSets, TLC

\* ------------------------------------------------------------------ bounds

\* The clock runs from 0 to MaxTime minutes.
MaxTime == 2

\* The issuing endpoint answers at most MaxMints mint requests with a 2xx and
\* a JSON body in one behaviour.
MaxMints == 2

\* The issuing endpoint answers with an expires_at of 1 to MaxLifetime
\* minutes ahead.
MaxLifetime == 3

Lifetimes == 1..MaxLifetime

\* The goroutines that call GetGitHubToken concurrently.
Threads == {"t1", "t2"}

\* --------------------------------------------------------- program constants

\* time.Minute, the renewal margin of the cache check and the safety buffer.
Minute == 1

\* time.Hour, the fallback lifetime when expires_at does not parse.
Hour == 60

\* time.Minute in seconds, the unit of Unix().
SecondsPerMinute == 60

\* the lifetime of a signing assertion, 9 * time.Minute
JwtMinutes == 9

\* time.Now().Unix() when the model's clock shows 0.
StartUnix == 1700000000

\* ------------------------------------------------------------ string helpers

\* HasPrefix comparing one character too few.
HasPrefixShort(s, p) ==
    /\ Len(s) >= Len(p) - 1
    /\ SubSeq(s, 1, Len(p) - 1) = SubSeq(p, 1, Len(p) - 1)

\* strings.HasPrefix
HasPrefix(s, p) ==
    /\ Len(s) >= Len(p)
    /\ SubSeq(s, 1, Len(p)) = p

\* strings.TrimPrefix
TrimPrefix(s, p) ==
    IF HasPrefix(s, p) THEN SubSeq(s, Len(p) + 1, Len(s)) ELSE s

InstallationPrefix ==
    <<"i", "n", "s", "t", "a", "l", "l", "a", "t", "i", "o", "n", ":">>

DigitChars == {"0", "1", "2", "3", "4", "5", "6", "7", "8", "9"}

DigitVal(c) ==
    CASE c = "0" -> 0 [] c = "1" -> 1 [] c = "2" -> 2 [] c = "3" -> 3
      [] c = "4" -> 4 [] c = "5" -> 5 [] c = "6" -> 6 [] c = "7" -> 7
      [] c = "8" -> 8 [] c = "9" -> 9

\* The largest magnitudes of a signed 64-bit integer, as decimal digits.
MaxInt64Digits ==
    <<"9", "2", "2", "3", "3", "7", "2", "0", "3", "6",
      "8", "5", "4", "7", "7", "5", "8", "0", "7">>

MinInt64Digits ==
    <<"9", "2", "2", "3", "3", "7", "2", "0", "3", "6",
      "8", "5", "4", "7", "7", "5", "8", "0", "8">>

RECURSIVE StripZeros(_)
StripZeros(d) ==
    IF Len(d) > 1 /\ d[1] = "0" THEN StripZeros(Tail(d)) ELSE d

\* a <= b for two digit strings of the same length
RECURSIVE DigitsLeq(_, _)
DigitsLeq(a, b) ==
    IF Len(a) = 0 THEN TRUE
    ELSE IF DigitVal(a[1]) < DigitVal(b[1]) THEN TRUE
    ELSE IF DigitVal(a[1]) > DigitVal(b[1]) THEN FALSE
    ELSE DigitsLeq(Tail(a), Tail(b))

RECURSIVE DecimalValue(_)
DecimalValue(d) ==
    IF Len(d) = 0 THEN 0
    ELSE 10 * DecimalValue(SubSeq(d, 1, Len(d) - 1)) + DigitVal(d[Len(d)])

\* strconv.ParseInt(s, 10, 64): an optional sign, then one or more decimal
\* digits (ErrSyntax otherwise) whose value fits 64 bits (ErrRange otherwise).
ParseInt(s) ==
    LET neg    == Len(s) > 0 /\ s[1] = "-"
        signed == Len(s) > 0 /\ s[1] \in {"+", "-"}
        digits == IF signed THEN Tail(s) ELSE s
        syntax == Len(digits) > 0 /\ \A i \in 1..Len(digits) : digits[i] \in DigitChars
        mag    == StripZeros(digits)
        range  == \/ Len(mag) < Len(MaxInt64Digits)
                  \/ /\ Len(mag) = Len(MaxInt64Digits)
                     /\ DigitsLeq(mag, IF neg THEN MinInt64Digits ELSE MaxInt64Digits)
    IN  IF syntax /\ range
        THEN [err |-> FALSE,
              val |-> IF neg THEN 0 - DecimalValue(mag) ELSE DecimalValue(mag)]
        ELSE [err |-> TRUE, val |-> 0]

\* ------------------------------------------------------------ configuration

Inst(suffix) == InstallationPrefix \o suffix

\* The credential mapping handed to NewInstallationTokenStore: loaded once,
\* never changed.  kA and kB name the same installation.
mapping ==
    ( "kA" :> Inst(<<"1">>) ) @@
    ( "kB" :> Inst(<<"1">>) ) @@
    ( "kC" :> Inst(<<"2">>) ) @@
    ( "kD" :> <<"g", "h", "p">> ) @@
    ( "kN" :> <<"i", "n", "s", "t", "a", "l", "l", "a", "t", "i", "o", "n", "1">> ) @@
    ( "kX" :> Inst(<<"1", "x">>) ) @@
    ( "kE" :> Inst(<< >>) ) @@
    ( "kO" :> Inst(MinInt64Digits) ) @@
    ( "kZ" :> Inst(<<"0">>) ) @@
    ( "kM" :> Inst(<<"-", "5">>) )

\* The caller keys presented to GetGitHubToken: every mapped key, the empty
\* string and one more key that has no entry.
CallerKeys == DOMAIN mapping \cup {"", "kU"}

\* The keys presented by the concurrent callers: two keys of installation 1,
\* one of installation 2, a direct credential, a malformed installation
\* reference and a key with no entry.
ConcurrentKeys == {"kA", "kB", "kC", "kD", "kX", "kU"}

\* The credential the issuing endpoint hands out in answer to mint request n,
\* which was sent to .../app/installations/<id>/access_tokens.
IssuedToken(id, n) == <<"ghs", ToString(id), ToString(n)>>

EmptyString == << >>

\* ------------------------------------------------- the environment of main

\* strings.Contains on a text kept as a sequence of words
Contains(text, word) == \E i \in 1..Len(text) : text[i] = word

\* Values of GITHUB_APP_PRIVATE_KEY_B64.  enc tells whether the value is
\* standard base64 ("b64", text is what it decodes to) or not ("raw", text is
\* the value itself); "unset" is the empty string.
PemRsaKey == <<"-----", "BEGIN", "RSA", "PRIVATE KEY", "-----", "MIIE", "-----", "END">>

PemEcKey == <<"-----", "BEGIN", "EC", "PRIVATE KEY", "-----", "MHcC", "-----", "END">>

PemPublicKey == <<"-----", "BEGIN", "PUBLIC KEY", "-----", "MIIB", "-----", "END">>

KeyValues ==
    { [enc |-> "unset", text |-> << >>],
      [enc |-> "b64", text |-> PemRsaKey],
      [enc |-> "raw", text |-> PemRsaKey],
      [enc |-> "b64", text |-> PemEcKey],
      [enc |-> "raw", text |-> PemPublicKey],
      [enc |-> "b64", text |-> <<"hello">>],
      [enc |-> "raw", text |-> <<"PRIVATE KEY", "BEGIN">>] }

\* pkBytes, err := base64.StdEncoding.DecodeString(pkb64); on error the value
\* is taken as raw PEM.  A base64 value has no space in it, so the marker
\* "PRIVATE KEY" only ever shows in a raw value or in decoded bytes.
KeyBytes(key) == key.text

\* parseRSAPrivateKeyFromPEM: a PEM block of type ... PRIVATE KEY that parses
\* as PKCS#1 or PKCS#8 and holds an RSA key
ParsesAsRsaKey(text) == text = PemRsaKey

\* Values of GITHUB_APP_ID; the empty string is the unset variable.
AppIdValues == { << >>, <<"7">>, <<"+", "7">>, <<"0">>, <<"-", "3">>, <<"a", "b">> }

\* Values of GITHUB_MCP_TOKEN_MAP as JSON documents.
JsonString(v) == [type |-> "string", s |-> v]

JsonNumber(v) == [type |-> "number", s |-> v]

JsonObject(members) == [kind |-> "object", members |-> members]

TokenMapValues ==
    { [kind |-> "unset", members |-> << >>],
      [kind |-> "garbage", members |-> << >>],
      [kind |-> "null", members |-> << >>],
      JsonObject(<< >>),
      JsonObject("kA" :> JsonNumber(<<"1">>)),
      JsonObject("kA" :> JsonString(Inst(<<"1">>))),
      JsonObject(("kA" :> JsonString(Inst(<<"1">>))) @@ ("kD" :> JsonString(<<"g", "h", "p">>))),
      JsonObject("kD" :> JsonString(<<"g", "h", "p">>)),
      JsonObject(("kA" :> JsonString(Inst(<<"1">>))) @@ ("kZ" :> JsonString(Inst(<<"0">>)))),
      JsonObject("kX" :> JsonString(Inst(<<"1", "x">>))) }

\* json.Unmarshal([]byte(v), &m) with m a map[string]string: a syntax error
\* or a member that is not a string is an error, null leaves m nil.
JsonUnmarshalMap(doc) ==
    CASE doc.kind = "null" -> [err |-> FALSE, m |-> << >>]
      [] doc.kind = "object" ->
            IF \A k \in DOMAIN doc.members : doc.members[k].type = "string"
            THEN [err |-> FALSE, m |-> [k \in DOMAIN doc.members |-> doc.members[k].s]]
            ELSE [err |-> TRUE, m |-> << >>]
      [] OTHER -> [err |-> TRUE, m |-> << >>]

\* The environments main and ValidateConfig are run in.
Envs ==
    [tokenMap : TokenMapValues, appID : AppIdValues, key : KeyValues]

\* The name of the token-map variable (the -token-map-env flag's default).
TokenMapEnv == "GITHUB_MCP_TOKEN_MAP"

NilConfig ==
    [nil |-> TRUE, TokenMapping |-> << >>, GitHubAppID |-> 0,
     GitHubAppPrivateKey |-> << >>]

NilError == [nil |-> TRUE, Field |-> ""]

ValidationError(field) == [cfg |-> NilConfig, err |-> [nil |-> FALSE, Field |-> field]]

\* InvalidInstallationValue without the instID <= 0 test.
InvalidInstallationValueAnySign(v) ==
    \/ ~HasPrefix(v, InstallationPrefix)
    \/ ParseInt(TrimPrefix(v, InstallationPrefix)).err

\* the test of one mapping value in the loop of validateRequiredEnvVars
\* (part_006 162-180)
InvalidInstallationValue(v) ==
    \/ ~HasPrefix(v, InstallationPrefix)
    \/ ParseInt(TrimPrefix(v, InstallationPrefix)).err
    \/ ParseInt(TrimPrefix(v, InstallationPrefix)).val <= 0

\* Config.validateRequiredEnvVars and ValidateConfig's return: the Config with
\* a nil error, or a nil Config with a ValidationError.
ValidateConfig(env) ==
    LET parsed == JsonUnmarshalMap(env.tokenMap)
        appSet == env.appID # << >>
        keySet == env.key.enc # "unset"
        appId  == ParseInt(env.appID)
        pkStr  == KeyBytes(env.key)
    IN  IF env.tokenMap.kind = "unset" THEN ValidationError(TokenMapEnv)
        ELSE IF parsed.err THEN ValidationError(TokenMapEnv)
        ELSE IF DOMAIN parsed.m = {} THEN ValidationError(TokenMapEnv)
        ELSE IF appSet # keySet
             THEN IF ~appSet THEN ValidationError("GITHUB_APP_ID")
                  ELSE ValidationError("GITHUB_APP_PRIVATE_KEY_B64")
        ELSE IF ~(appSet /\ keySet)
             THEN [cfg |-> [nil |-> FALSE, TokenMapping |-> parsed.m,
                            GitHubAppID |-> 0, GitHubAppPrivateKey |-> << >>],
                   err |-> NilError]
        ELSE IF appId.err THEN ValidationError("GITHUB_APP_ID")
        ELSE IF appId.val <= 0 THEN ValidationError("GITHUB_APP_ID")
        ELSE IF ~Contains(pkStr, "BEGIN") \/ ~Contains(pkStr, "PRIVATE KEY")
             THEN ValidationError("GITHUB_APP_PRIVATE_KEY_B64")
        ELSE IF \E k \in DOMAIN parsed.m : InvalidInstallationValue(parsed.m[k])
             THEN ValidationError(TokenMapEnv)
        ELSE [cfg |-> [nil |-> FALSE, TokenMapping |-> parsed.m,
                       GitHubAppID |-> appId.val, GitHubAppPrivateKey |-> pkStr],
              err |-> NilError]

\* The environment of the running server the requests below are sent to: the
\* mapping above as the token map, App credentials set.
ServingEnv ==
    [tokenMap |-> JsonObject([k \in DOMAIN mapping |-> JsonString(mapping[k])]),
     appID |-> <<"7">>,
     key |-> [enc |-> "b64", text |-> PemRsaKey]]

\* ------------------------------------------ createAppJWT, lines 240-267

\* The printable ASCII characters, code 32 to code 126 (code 96 by name).
Ascii ==
    <<" ", "!", "\"", "#", "$", "%", "&", "'", "(", ")", "*", "+", ",", "-", ".", "/",
      "0", "1", "2", "3", "4", "5", "6", "7", "8", "9", ":", ";", "<", "=", ">", "?",
      "@", "A", "B", "C", "D", "E", "F", "G", "H", "I", "J", "K", "L", "M", "N", "O",
      "P", "Q", "R", "S", "T", "U", "V", "W", "X", "Y", "Z", "[", "\\", "]", "^", "_",
      "grave", "a", "b", "c", "d", "e", "f", "g", "h", "i", "j", "k", "l", "m", "n", "o",
      "p", "q", "r", "s", "t", "u", "v", "w", "x", "y", "z", "{", "|", "}", "~">>

\* []byte(s)
Bytes(s) ==
    [i \in 1..Len(s) |-> 31 + (CHOOSE j \in 1..Len(Ascii) : Ascii[j] = s[i])]

\* The alphabet of base64.RawURLEncoding.
Base64Url ==
    <<"A", "B", "C", "D", "E", "F", "G", "H", "I", "J", "K", "L", "M",
      "N", "O", "P", "Q", "R", "S", "T", "U", "V", "W", "X", "Y", "Z",
      "a", "b", "c", "d", "e", "f", "g", "h", "i", "j", "k", "l", "m",
      "n", "o", "p", "q", "r", "s", "t", "u", "v", "w", "x", "y", "z",
      "0", "1", "2", "3", "4", "5", "6", "7", "8", "9", "-", "_">>

\* base64.RawURLEncoding.EncodeToString: three bytes to four characters, the
\* last one or two bytes to two or three characters, no padding
RECURSIVE RawURLEncode(_)
RawURLEncode(b) ==
    IF Len(b) = 0 THEN << >>
    ELSE IF Len(b) = 1
         THEN <<Base64Url[(b[1] \div 4) + 1], Base64Url[((b[1] % 4) * 16) + 1]>>
    ELSE IF Len(b) = 2
         THEN <<Base64Url[(b[1] \div 4) + 1],
                Base64Url[((b[1] % 4) * 16 + (b[2] \div 16)) + 1],
                Base64Url[((b[2] % 16) * 4) + 1]>>
    ELSE <<Base64Url[(b[1] \div 4) + 1],
           Base64Url[((b[1] % 4) * 16 + (b[2] \div 16)) + 1],
           Base64Url[((b[2] % 16) * 4 + (b[3] \div 64)) + 1],
           Base64Url[(b[3] % 64) + 1]>> \o RawURLEncode(SubSeq(b, 4, Len(b)))

\* the decimal digits json.Marshal writes for a non-negative int64
RECURSIVE FormatInt(_)
FormatInt(n) ==
    IF n < 10 THEN <<Ascii[17 + n]>>
    ELSE FormatInt(n \div 10) \o <<Ascii[17 + (n % 10)]>>

\* {"alg":"RS256","typ":"JWT"}
HeaderJSON ==
    <<"{", "\"", "a", "l", "g", "\"", ":", "\"", "R", "S", "2", "5", "6", "\"", ",",
      "\"", "t", "y", "p", "\"", ":", "\"", "J", "W", "T", "\"", "}">>

\* json.Marshal(payloadMap): the keys of a map are written in sorted order
PayloadJSON(iss, iat, exp) ==
    <<"{", "\"", "e", "x", "p", "\"", ":">> \o FormatInt(exp)
    \o <<",", "\"", "i", "a", "t", "\"", ":">> \o FormatInt(iat)
    \o <<",", "\"", "i", "s", "s", "\"", ":">> \o FormatInt(iss)
    \o <<"}">>

\* time.Now().Unix() at minute n of the model's clock.
Unix(n) == StartUnix + SecondsPerMinute * n

\* s.appID, parsed from GITHUB_APP_ID by main
AppID == ParseInt(ServingEnv.appID).val

RECURSIVE SumBytes(_)
SumBytes(b) == IF Len(b) = 0 THEN 0 ELSE b[1] + SumBytes(Tail(b))

\* rsa.SignPKCS1v15 over the SHA-256 digest of the unsigned assertion: a
\* function of the signed text; four bytes stand for the 256 of a 2048-bit
\* key (both leave one byte in the last base64 group).
Sign(unsigned) ==
    LET sum == SumBytes(Bytes(unsigned))
    IN  <<sum % 256, (sum \div 7) % 256, Len(unsigned) % 256, (3 * sum) % 256>>

\* CreateAppJWT with the assertion made once, at minute 0, and kept.
CreateAppJWTReused(n) ==
    LET header   == RawURLEncode(Bytes(HeaderJSON))
        payload  == RawURLEncode(Bytes(PayloadJSON(AppID, Unix(0), Unix(0 + JwtMinutes * Minute))))
        unsigned == header \o <<".">> \o payload
    IN  unsigned \o <<".">> \o RawURLEncode(Sign(unsigned))

\* createAppJWT at minute n: header.payload.signature
CreateAppJWT(n) ==
    LET header   == RawURLEncode(Bytes(HeaderJSON))
        payload  == RawURLEncode(Bytes(PayloadJSON(AppID, Unix(n), Unix(n + JwtMinutes * Minute))))
        unsigned == header \o <<".">> \o payload
    IN  unsigned \o <<".">> \o RawURLEncode(Sign(unsigned))

\* The assertion createAppJWT returns at each minute of the clock.
SignedAt == [n \in 0..MaxTime |-> CreateAppJWT(n)]

\* --------------------------------------------------------------------- state

VARIABLES
    now,      \* the clock, in minutes
    cache,    \* s.cache: installation id -> [token, expiry], a partial map
    mu,       \* s.mu: the goroutine that holds the mutex, or "free"
    calls,    \* each goroutine's position in GetGitHubToken and its locals
    last,     \* the call that returned most recently and what it returned
    nMint,    \* the number of mint requests the issuing endpoint has granted
    reqs,     \* each goroutine's position in the /mcp handler and its locals
    boot,     \* main: the environment it was started in and how far it got
    issued,   \* the issuing endpoint: the 2xx answers it gave, in order
    api       \* a failed upstream call of a tool and the error written for it

vars == <<now, cache, mu, calls, last, nMint, reqs, boot, issued, api>>

\* ------------------------------- upstream errors, pkg/errors/handlers.go

\* The *github.Response of a failed call: nil, or a status code and the
\* rate-limit headers (Rate is the zero value when the headers are absent).
NilResponse ==
    [nil |-> TRUE, StatusCode |-> 0, Rate |-> [Limit |-> 0, Remaining |-> 0, Reset |-> 0]]

Response(status, limit, remaining, reset) ==
    [nil |-> FALSE, StatusCode |-> status,
     Rate |-> [Limit |-> limit, Remaining |-> remaining, Reset |-> reset]]

UpstreamStatuses == {400, 401, 403, 404, 422, 500, 502}

UpstreamResponses ==
    {NilResponse} \cup
    { Response(s, l, r, t) : s \in UpstreamStatuses, l \in {0, 60}, r \in {0, 1}, t \in {0, 3} }

\* The error of a failed call: nil, a plain error, or a *github.ErrorResponse
\* with its Message, DocumentationURL and Errors; text is err.Error().
NilErr ==
    [kind |-> "nil", text |-> << >>, Message |-> << >>, DocumentationURL |-> << >>,
     Errors |-> << >>]

UpstreamErrors ==
    { NilErr,
      [kind |-> "plain", text |-> <<"connection reset by peer">>, Message |-> << >>,
       DocumentationURL |-> << >>, Errors |-> << >>],
      [kind |-> "github", text |-> <<"POST /repos: Validation Failed">>,
       Message |-> <<"Validation Failed">>,
       DocumentationURL |-> <<"https://docs.github.com/rest">>,
       Errors |-> << [Resource |-> "Issue", Field |-> "title",
                      Code |-> "missing_field", Message |-> ""] >>],
      [kind |-> "github", text |-> <<"GET /user: ">>, Message |-> << >>,
       DocumentationURL |-> << >>, Errors |-> << >>] }

\* http.StatusText
StatusText(code) ==
    CASE code = 400 -> <<"Bad Request">>
      [] code = 401 -> <<"Unauthorized">>
      [] code = 403 -> <<"Forbidden">>
      [] code = 404 -> <<"Not Found">>
      [] code = 422 -> <<"Unprocessable Entity">>
      [] code = 500 -> <<"Internal Server Error">>
      [] code = 502 -> <<"Bad Gateway">>
      [] OTHER -> << >>

\* a nil map[string]interface{}
NilData == [k \in {} |-> << >>]

\* NewErrorResponse (part_001 101-107)
NewErrorResponse(errType, message, data) ==
    [Type |-> errType, Message |-> message, Data |-> data]

NoErrorResponse == NewErrorResponse("", << >>, NilData)

\* NewRateLimitError (handlers.go 49-66): retry_after is the whole seconds
\* until the reset, never negative
NewRateLimitError(limit, remaining, resetAt) ==
    LET until      == SecondsPerMinute * (resetAt - now)
        retryAfter == IF until < 0 THEN 0 ELSE until
    IN  NewErrorResponse("rate_limit_exceeded",
            <<"GitHub API rate limit exceeded. Limit:", ToString(limit),
              "Remaining:", ToString(remaining), "Resets at", ToString(resetAt)>>,
            ("limit" :> limit) @@ ("remaining" :> remaining)
              @@ ("reset_at" :> resetAt) @@ ("retry_after" :> retryAfter))

\* NewRateLimitErrorFromGitHub (handlers.go 69-80)
NewRateLimitErrorFromGitHub(resp) ==
    IF resp.nil \/ resp.Rate.Limit = 0
    THEN NewErrorResponse("rate_limit_exceeded",
            <<"GitHub API rate limit exceeded. Please try again later.">>,
            ("retry_after" :> 3600))
    ELSE NewRateLimitError(resp.Rate.Limit, resp.Rate.Remaining, resp.Rate.Reset)

\* NewPermissionDeniedError(message, nil, "") (handlers.go 83-110)
NewPermissionDeniedError(message) ==
    NewErrorResponse("authorization_error",
        IF message # << >> THEN message ELSE <<"Permission denied">>,
        ("message" :> message) @@ ("required_scopes" :> << >>) @@ ("resource" :> << >>))

\* NewAuthenticationError (handlers.go 113-125)
NewAuthenticationError(message, hint) ==
    NewErrorResponse("authentication_error", message,
        ("message" :> message) @@ ("hint" :> hint))

\* NewGitHubAPIError (handlers.go 128-149)
NewGitHubAPIError(statusCode, message, documentationURL, fieldErrors) ==
    NewErrorResponse("github_api_error",
        <<"GitHub API error (status", ToString(statusCode), "):">> \o message,
        ("status_code" :> statusCode) @@ ("message" :> message)
          @@ ("documentation_url" :> documentationURL) @@ ("errors" :> fieldErrors))

\* NewGitHubAPIErrorFromResponse testing for a permission error first.
NewGitHubAPIErrorFromResponsePermissionFirst(resp, err) ==
    LET statusCode == resp.StatusCode
        message    == IF err.kind # "nil" THEN err.text ELSE StatusText(statusCode)
    IN  IF resp.nil
        THEN NewErrorResponse("github_api_error", <<"GitHub API error:">> \o err.text, NilData)
        ELSE IF statusCode = 403 THEN NewPermissionDeniedError(message)
        ELSE IF statusCode = 401
             THEN NewAuthenticationError(message,
                      <<"Verify your GitHub token is valid and has not expired">>)
        ELSE IF statusCode = 404
             THEN NewErrorResponse("not_found", message, ("status_code" :> statusCode))
        ELSE IF err.kind = "github"
             THEN NewGitHubAPIError(statusCode,
                      IF err.Message # << >> THEN err.Message ELSE message,
                      err.DocumentationURL, err.Errors)
        ELSE IF statusCode = 422 \/ statusCode = 400
             THEN NewErrorResponse("validation_error", message, ("status_code" :> statusCode))
        ELSE NewGitHubAPIError(statusCode, message, << >>, << >>)

\* NewGitHubAPIErrorFromResponse (handlers.go 152-218)
NewGitHubAPIErrorFromResponse(resp, err) ==
    LET statusCode == resp.StatusCode
        message    == IF err.kind # "nil" THEN err.text ELSE StatusText(statusCode)
    IN  IF resp.nil
        THEN NewErrorResponse("github_api_error", <<"GitHub API error:">> \o err.text, NilData)
        ELSE IF statusCode = 403 /\ resp.Rate.Remaining = 0
             THEN NewRateLimitErrorFromGitHub(resp)
        ELSE IF statusCode = 403 THEN NewPermissionDeniedError(message)
        ELSE IF statusCode = 401
             THEN NewAuthenticationError(message,
                      <<"Verify your GitHub token is valid and has not expired">>)
        ELSE IF statusCode = 404
             THEN NewErrorResponse("not_found", message, ("status_code" :> statusCode))
        ELSE IF err.kind = "github"
             THEN NewGitHubAPIError(statusCode,
                      IF err.Message # << >> THEN err.Message ELSE message,
                      err.DocumentationURL, err.Errors)
        ELSE IF statusCode = 422 \/ statusCode = 400
             THEN NewErrorResponse("validation_error", message, ("status_code" :> statusCode))
        ELSE NewGitHubAPIError(statusCode, message, << >>, << >>)

\* MapErrorTypeToHTTPStatus (part_001 143-162)
MapErrorTypeToHTTPStatus(errType) ==
    CASE errType \in {"authentication_error", "missing_authorization", "invalid_token"} -> 401
      [] errType = "authorization_error" -> 403
      [] errType = "rate_limit_exceeded" -> 429
      [] errType = "not_found" -> 404
      [] errType \in {"validation_error", "mcp_protocol_error"} -> 400
      [] errType = "method_not_allowed" -> 405
      [] errType \in {"github_api_error", "internal_error"} -> 500
      [] OTHER -> 500

IdleCall ==
    [pc |-> "idle", key |-> "", id |-> 0, tok |-> EmptyString, exp |-> 0,
     mints |-> 0, locks |-> 0, jwt |-> EmptyString, expErr |-> FALSE]

NoCall ==
    [path |-> "none", key |-> "", id |-> 0, cred |-> EmptyString, found |-> FALSE,
     mints |-> 0, locks |-> 0, elapsed |-> FALSE]

\* The response the /mcp handler wrote: the status and the error body's type
\* and details.
NoResponse ==
    [status |-> 0, type |-> "", received |-> "", required |-> "", bearer |-> FALSE]

\* A goroutine that is not handling a request.
IdleReq ==
    [pc |-> "none", method |-> "", auth |-> EmptyString, key |-> "",
     ghToken |-> EmptyString, ctx |-> EmptyString, cancelled |-> FALSE,
     resp |-> NoResponse, closed |-> FALSE, logged |-> FALSE]

\* main is serving: the listener is up, ts is the InstallationTokenStore.
Serving(env) ==
    [pc |-> "listening", env |-> env, store |-> "installation", code |-> 0,
     validated |-> FALSE, cfg |-> NilConfig, err |-> NilError]

\* No upstream call has failed.
NoFailure ==
    [pc |-> "idle", resp |-> NilResponse, err |-> NilErr, out |-> NoErrorResponse,
     status |-> 0]

\* NewInstallationTokenStore: an empty cache, the mutex free.
StoreInit ==
    /\ now = 0
    /\ cache = << >>
    /\ mu = "free"
    /\ calls = [t \in Threads |-> IdleCall]
    /\ last = NoCall
    /\ nMint = 0
    /\ reqs = [t \in Threads |-> IdleReq]
    /\ issued = << >>
    /\ api = NoFailure

\* The server is up and nothing has been asked of it yet.
Init ==
    /\ StoreInit
    /\ boot = Serving(ServingEnv)

\* HandlerResolved going on to serve whatever GetGitHubToken returned.
HandlerResolvedIgnoresOk(t, cred, found) ==
    IF reqs[t].pc # "resolve" THEN reqs
    ELSE [reqs EXCEPT ![t].pc = "resolved", ![t].ghToken = cred]

\* lines 300-321 of the /mcp handler, run when ts.GetGitHubToken returns to
\* it: ghToken = t on ok, else the 401 invalid_token answer and return.
HandlerResolved(t, cred, found) ==
    IF reqs[t].pc # "resolve" THEN reqs
    ELSE IF found
         THEN [reqs EXCEPT ![t].pc = "resolved", ![t].ghToken = cred]
         ELSE [reqs EXCEPT ![t] =
                 [IdleReq EXCEPT !.resp = [NoResponse EXCEPT
                                             !.status = 401, !.type = "invalid_token"]]]

\* The call c of goroutine t returns (cred, found) along the given path.
Return(t, c, path, cred, found) ==
    /\ last' = [path |-> path, key |-> c.key, id |-> c.id,
                cred |-> cred, found |-> found,
                mints |-> c.mints, locks |-> c.locks, elapsed |-> FALSE]
    /\ calls' = [calls EXCEPT ![t] = IdleCall]
    /\ reqs' = HandlerResolved(t, cred, found)

\* --------------------------------------------- GetGitHubToken, lines 147-187

\* ResolveUnmapped without the ok check: the zero value v = "" falls through
\* to the direct-credential return.
ResolveUnmappedNoCheck(t, k) ==
    /\ calls[t].pc = "idle"
    /\ k \notin DOMAIN mapping
    /\ Return(t, [IdleCall EXCEPT !.key = k], "direct", EmptyString, TRUE)
    /\ UNCHANGED <<now, cache, mu, nMint, boot, issued, api>>

\* v, ok := s.mapping[mcpToken]; !ok: return "", false
ResolveUnmapped(t, k) ==
    /\ calls[t].pc = "idle"
    /\ k \notin DOMAIN mapping
    /\ Return(t, [IdleCall EXCEPT !.key = k], "unmapped", EmptyString, FALSE)
    /\ UNCHANGED <<now, cache, mu, nMint, boot, issued, api>>

\* the mapped value is not installation:<...>: return v, true
ResolveDirect(t, k) ==
    /\ calls[t].pc = "idle"
    /\ k \in DOMAIN mapping
    /\ ~HasPrefix(mapping[k], InstallationPrefix)
    /\ Return(t, [IdleCall EXCEPT !.key = k], "direct", mapping[k], TRUE)
    /\ UNCHANGED <<now, cache, mu, nMint, boot, issued, api>>

\* strconv.ParseInt fails on the suffix: return "", false
ResolveInvalidId(t, k) ==
    /\ calls[t].pc = "idle"
    /\ k \in DOMAIN mapping
    /\ HasPrefix(mapping[k], InstallationPrefix)
    /\ ParseInt(TrimPrefix(mapping[k], InstallationPrefix)).err
    /\ Return(t, [IdleCall EXCEPT !.key = k], "invalid_id", EmptyString, FALSE)
    /\ UNCHANGED <<now, cache, mu, nMint, boot, issued, api>>

\* ResolveInstallation with one installation id for every key.
ResolveInstallationOneId(t, k) ==
    /\ calls[t].pc = "idle"
    /\ k \in DOMAIN mapping
    /\ HasPrefix(mapping[k], InstallationPrefix)
    /\ ~ParseInt(TrimPrefix(mapping[k], InstallationPrefix)).err
    /\ calls' = [calls EXCEPT ![t] =
                   [IdleCall EXCEPT !.pc = "lock_lookup", !.key = k, !.id = 1]]
    /\ UNCHANGED <<now, cache, mu, last, nMint, reqs, boot, issued, api>>

\* ResolveInstallation with a cache key that depends on the caller key.
ResolveInstallationPerKey(t, k) ==
    /\ calls[t].pc = "idle"
    /\ k \in DOMAIN mapping
    /\ HasPrefix(mapping[k], InstallationPrefix)
    /\ ~ParseInt(TrimPrefix(mapping[k], InstallationPrefix)).err
    /\ calls' = [calls EXCEPT ![t] =
                   [IdleCall EXCEPT
                      !.pc = "lock_lookup", !.key = k,
                      !.id = 10 * ParseInt(TrimPrefix(mapping[k], InstallationPrefix)).val
                             + (IF k = "kB" THEN 1 ELSE 0)]]
    /\ UNCHANGED <<now, cache, mu, last, nMint, reqs, boot, issued, api>>

\* the suffix parses: go on to the cache check with id
ResolveInstallation(t, k) ==
    /\ calls[t].pc = "idle"
    /\ k \in DOMAIN mapping
    /\ HasPrefix(mapping[k], InstallationPrefix)
    /\ ~ParseInt(TrimPrefix(mapping[k], InstallationPrefix)).err
    /\ calls' = [calls EXCEPT ![t] =
                   [IdleCall EXCEPT
                      !.pc = "lock_lookup", !.key = k,
                      !.id = ParseInt(TrimPrefix(mapping[k], InstallationPrefix)).val]]
    /\ UNCHANGED <<now, cache, mu, last, nMint, reqs, boot, issued, api>>

\* s.mu.Lock() before the cache check (line 161)
LockLookup(t) ==
    /\ calls[t].pc = "lock_lookup"
    /\ mu = "free"
    /\ mu' = t
    /\ calls' = [calls EXCEPT ![t].pc = "lookup", ![t].locks = @ + 1]
    /\ UNCHANGED <<now, cache, last, nMint, reqs, boot, issued, api>>

\* CacheUsable of a store that never reads its cache.
CacheUsableNever(id) == id \in DOMAIN cache /\ FALSE

\* CacheUsable with a margin of two minutes.
CacheUsableWideMargin(id) ==
    /\ id \in DOMAIN cache
    /\ cache[id].expiry - now > Minute + Minute

\* CacheUsable with >= in place of >.
CacheUsableAtMargin(id) ==
    /\ id \in DOMAIN cache
    /\ cache[id].expiry - now >= Minute

\* ct, ok := s.cache[id]; ok && time.Until(ct.expiry) > time.Minute
CacheUsable(id) ==
    /\ id \in DOMAIN cache
    /\ cache[id].expiry - now > Minute

\* cache hit: token := ct.token; s.mu.Unlock(); return token, true
CacheHit(t) ==
    /\ calls[t].pc = "lookup"
    /\ CacheUsable(calls[t].id)
    /\ mu' = "free"
    /\ Return(t, calls[t], "hit", cache[calls[t].id].token, TRUE)
    /\ UNCHANGED <<now, cache, nMint, boot, issued, api>>

\* CacheMiss that keeps the mutex while minting.
CacheMissKeepsLock(t) ==
    /\ calls[t].pc = "lookup"
    /\ ~CacheUsable(calls[t].id)
    /\ calls' = [calls EXCEPT ![t].pc = "mint"]
    /\ UNCHANGED <<now, cache, mu, last, nMint, reqs, boot, issued, api>>

\* cache miss: s.mu.Unlock(), then createInstallationToken(id)
CacheMiss(t) ==
    /\ calls[t].pc = "lookup"
    /\ ~CacheUsable(calls[t].id)
    /\ mu' = "free"
    /\ calls' = [calls EXCEPT ![t].pc = "mint"]
    /\ UNCHANGED <<now, cache, last, nMint, reqs, boot, issued, api>>

\* ------------------------------------ createInstallationToken, lines 189-238

\* createAppJWT fails to sign: the mint fails before any request is sent
MintSignError(t) ==
    /\ calls[t].pc = "mint"
    /\ Return(t, calls[t], "mint_failed", EmptyString, FALSE)
    /\ UNCHANGED <<now, cache, mu, nMint, boot, issued, api>>

\* the assertion is signed and the POST to .../access_tokens is sent
MintRequest(t) ==
    /\ calls[t].pc = "mint"
    /\ calls' = [calls EXCEPT ![t].pc = "http", ![t].mints = @ + 1,
                              ![t].jwt = SignedAt[now]]
    /\ UNCHANGED <<now, cache, mu, last, nMint, reqs, boot, issued, api>>

\* MintNetworkError that falls back to whatever the cache holds.
MintNetworkErrorServesStale(t) ==
    /\ calls[t].pc = "http"
    /\ Return(t, calls[t], "mint_failed",
              IF calls[t].id \in DOMAIN cache
              THEN cache[calls[t].id].token ELSE EmptyString,
              calls[t].id \in DOMAIN cache)
    /\ UNCHANGED <<now, cache, mu, nMint, boot, issued, api>>

\* MintNetworkError of a client without a timeout, which waits on.
MintNetworkErrorNoTimeout(t) ==
    /\ calls[t].pc = "http"
    /\ FALSE
    /\ UNCHANGED vars

\* client.Do fails: a network error or the 10 second timeout
MintNetworkError(t) ==
    /\ calls[t].pc = "http"
    /\ Return(t, calls[t], "mint_failed", EmptyString, FALSE)
    /\ UNCHANGED <<now, cache, mu, nMint, boot, issued, api>>

\* the endpoint answers with a status outside 200..299
MintBadStatus(t) ==
    /\ calls[t].pc = "http"
    /\ Return(t, calls[t], "mint_failed", EmptyString, FALSE)
    /\ UNCHANGED <<now, cache, mu, nMint, boot, issued, api>>

\* the endpoint answers 2xx with a body that is not the expected JSON
MintBadBody(t) ==
    /\ calls[t].pc = "http"
    /\ Return(t, calls[t], "mint_failed", EmptyString, FALSE)
    /\ UNCHANGED <<now, cache, mu, nMint, boot, issued, api>>

\* StoredExpiry without the safety buffer.
StoredExpiryNoBuffer(expiresAt) ==
    IF expiresAt.ok THEN now + expiresAt.life ELSE now + Hour

\* StoredExpiry that keeps the zero time time.Parse returns with its error.
StoredExpiryZeroOnError(expiresAt) ==
    (IF expiresAt.ok THEN now + expiresAt.life ELSE 0) - Minute

\* exp, err := time.Parse(RFC3339, out.ExpiresAt); on error now + 1 hour;
\* expiry := exp - 1 minute.  expiresAt.ok tells whether out.ExpiresAt parses,
\* now + expiresAt.life is the time it parses to.
StoredExpiry(expiresAt) ==
    (IF expiresAt.ok THEN now + expiresAt.life ELSE now + Hour) - Minute

\* The 2xx answer to mint request number nMint + 1: the token of the body (empty
\* when it has none) and the time its expires_at names, if it names one.
Answer(id, hasToken, expiresAt) ==
    [token     |-> IF hasToken THEN IssuedToken(id, nMint + 1) ELSE EmptyString,
     ok        |-> expiresAt.ok,
     expiresAt |-> IF expiresAt.ok THEN now + expiresAt.life ELSE 0]

\* the endpoint answers 2xx with a JSON body: out.Token (empty when the body
\* has no token field) and out.ExpiresAt
MintResponse(t, hasToken, expiresAt) ==
    /\ calls[t].pc = "http"
    /\ nMint < MaxMints
    /\ nMint' = nMint + 1
    /\ calls' = [calls EXCEPT
                   ![t].pc = "lock_store",
                   ![t].jwt = EmptyString,
                   ![t].tok = IF hasToken THEN IssuedToken(calls[t].id, nMint + 1)
                              ELSE EmptyString,
                   ![t].exp = StoredExpiry(expiresAt),
                   ![t].expErr = ~expiresAt.ok]
    /\ issued' = Append(issued, Answer(calls[t].id, hasToken, expiresAt))
    /\ UNCHANGED <<now, cache, mu, last, reqs, boot, api>>

\* s.mu.Lock() before the cache write (line 177)
LockStore(t) ==
    /\ calls[t].pc = "lock_store"
    /\ mu = "free"
    /\ mu' = t
    /\ calls' = [calls EXCEPT ![t].pc = "store", ![t].locks = @ + 1]
    /\ UNCHANGED <<now, cache, last, nMint, reqs, boot, issued, api>>

\* CachePut that keeps the entry with the later expiry.
CachePutKeepsLatest(id, tok, exp) ==
    [i \in DOMAIN cache \cup {id} |->
        IF i = id /\ (id \notin DOMAIN cache \/ cache[id].expiry <= exp)
        THEN [token |-> tok, expiry |-> exp]
        ELSE cache[i]]

\* CachePut into a map that holds one entry in all.
CachePutOnlyEntry(id, tok, exp) ==
    [i \in {id} |-> [token |-> tok, expiry |-> exp]]

\* CachePut that leaves the map as it is.
CachePutDropped(id, tok, exp) == cache

\* s.cache[id] = &cachedToken{tok, exp}
CachePut(id, tok, exp) ==
    [i \in DOMAIN cache \cup {id} |->
        IF i = id THEN [token |-> tok, expiry |-> exp] ELSE cache[i]]

\* CacheStore that returns without s.mu.Unlock().
CacheStoreKeepsLock(t) ==
    /\ calls[t].pc = "store"
    /\ cache' = CachePut(calls[t].id, calls[t].tok, calls[t].exp)
    /\ mu' = mu
    /\ Return(t, calls[t], "minted", calls[t].tok, TRUE)
    /\ UNCHANGED <<now, nMint, boot, issued, api>>

\* the cache write, s.mu.Unlock() and return tok, true (lines 178-181)
CacheStore(t) ==
    /\ calls[t].pc = "store"
    /\ cache' = CachePut(calls[t].id, calls[t].tok, calls[t].exp)
    /\ mu' = "free"
    /\ Return(t, calls[t], "minted", calls[t].tok, TRUE)
    /\ UNCHANGED <<now, nMint, boot, issued, api>>

\* ----------------------------------------- the /mcp handler, main.go 247-362

UpperCase ==
    <<"A", "B", "C", "D", "E", "F", "G", "H", "I", "J", "K", "L", "M",
      "N", "O", "P", "Q", "R", "S", "T", "U", "V", "W", "X", "Y", "Z">>

LowerCase ==
    <<"a", "b", "c", "d", "e", "f", "g", "h", "i", "j", "k", "l", "m",
      "n", "o", "p", "q", "r", "s", "t", "u", "v", "w", "x", "y", "z">>

\* strings.ToLower
ToLower(s) ==
    [i \in 1..Len(s) |->
        IF \E j \in 1..Len(UpperCase) : UpperCase[j] = s[i]
        THEN LowerCase[CHOOSE j \in 1..Len(UpperCase) : UpperCase[j] = s[i]]
        ELSE s[i]]

\* strings.SplitN(s, " ", 2): cut at the first space, if there is one
SplitN2(s) ==
    IF \E i \in 1..Len(s) : s[i] = " "
    THEN LET i == CHOOSE i \in 1..Len(s) :
                    s[i] = " " /\ \A j \in 1..(i - 1) : s[j] # " "
         IN  <<SubSeq(s, 1, i - 1), SubSeq(s, i + 1, Len(s))>>
    ELSE <<s>>

WhiteSpace == {" ", "\t", "\n", "\r"}

\* strings.TrimSpace
RECURSIVE TrimSpace(_)
TrimSpace(s) ==
    IF Len(s) = 0 THEN s
    ELSE IF s[1] \in WhiteSpace THEN TrimSpace(Tail(s))
    ELSE IF s[Len(s)] \in WhiteSpace THEN TrimSpace(SubSeq(s, 1, Len(s) - 1))
    ELSE s

\* extractBearer comparing the scheme word as it is written.
ExtractBearerCaseSensitive(auth) ==
    IF auth = EmptyString THEN EmptyString
    ELSE LET parts == SplitN2(auth)
         IN  IF Len(parts) # 2 THEN EmptyString
             ELSE IF parts[1] # <<"B", "e", "a", "r", "e", "r">> THEN EmptyString
             ELSE TrimSpace(parts[2])

\* extractBearer answering the whole header value, whatever its scheme.
ExtractBearerAnyScheme(auth) == TrimSpace(auth)

\* extractBearer (main.go 21-33)
ExtractBearer(auth) ==
    IF auth = EmptyString THEN EmptyString
    ELSE LET parts == SplitN2(auth)
         IN  IF Len(parts) # 2 THEN EmptyString
             ELSE IF ToLower(parts[1]) # <<"b", "e", "a", "r", "e", "r">> THEN EmptyString
             ELSE TrimSpace(parts[2])

\* The caller key as the mapping is indexed by it.
RECURSIVE Join(_)
Join(s) == IF Len(s) = 0 THEN "" ELSE Head(s) \o Join(Tail(s))

Bearer == <<"B", "e", "a", "r", "e", "r">>

\* Authorization header values; the empty one is the absent header.
AuthHeaders ==
    { EmptyString,
      Bearer \o <<" ", "k", "A">>,
      <<"b", "e", "a", "r", "e", "r", " ", "k", "B">>,
      Bearer \o <<" ", "k", "C">>,
      Bearer \o <<" ", " ", "k", "D", " ">>,
      Bearer \o <<" ", "k", "X">>,
      Bearer \o <<" ", "k", "U">>,
      <<"B", "a", "s", "i", "c", " ", "k", "A">>,
      Bearer,
      Bearer \o <<" ", " ", "\t">> }

Methods == {"POST", "GET", "PUT"}

ErrorResponse(status, type) ==
    [NoResponse EXCEPT !.status = status, !.type = type]

\* The 405 answer with its details; bearer remembers whether the rejected
\* request carried a bearer key.
MethodNotAllowed(r) ==
    [status |-> 405, type |-> "method_not_allowed", received |-> r.method,
     required |-> "POST", bearer |-> ExtractBearer(r.auth) # EmptyString]

\* a request arrives and the handler starts on a goroutine (lines 247-254)
Receive(t, m, a) ==
    /\ boot.pc = "listening"
    /\ reqs[t].pc = "none"
    /\ calls[t].pc = "idle"
    /\ reqs' = [reqs EXCEPT ![t] =
                  [IdleReq EXCEPT !.pc = "received", !.method = m, !.auth = a]]
    /\ UNCHANGED <<now, cache, mu, calls, last, nMint, boot, issued, api>>

\* r.Method != POST: 405 method_not_allowed, return (lines 256-275)
HandleMethodNotAllowed(t) ==
    /\ reqs[t].pc = "received"
    /\ reqs[t].method # "POST"
    /\ reqs' = [reqs EXCEPT ![t] = [IdleReq EXCEPT !.resp = MethodNotAllowed(reqs[t])]]
    /\ UNCHANGED <<now, cache, mu, calls, last, nMint, boot, issued, api>>

\* HandleMissingAuthorization ahead of the method check.
HandleMissingAuthorizationFirst(t) ==
    /\ reqs[t].pc = "received"
    /\ ExtractBearer(reqs[t].auth) = EmptyString
    /\ reqs' = [reqs EXCEPT ![t] =
                  [IdleReq EXCEPT !.resp = ErrorResponse(401, "missing_authorization")]]
    /\ UNCHANGED <<now, cache, mu, calls, last, nMint, boot, issued, api>>

\* extractBearer(auth) == "": 401 missing_authorization, return (277-295)
HandleMissingAuthorization(t) ==
    /\ reqs[t].pc = "received"
    /\ reqs[t].method = "POST"
    /\ ExtractBearer(reqs[t].auth) = EmptyString
    /\ reqs' = [reqs EXCEPT ![t] =
                  [IdleReq EXCEPT !.resp = ErrorResponse(401, "missing_authorization")]]
    /\ UNCHANGED <<now, cache, mu, calls, last, nMint, boot, issued, api>>

\* a bearer key was extracted: the handler is about to resolve it (297-300)
HandleAuthorized(t) ==
    /\ reqs[t].pc = "received"
    /\ reqs[t].method = "POST"
    /\ ExtractBearer(reqs[t].auth) # EmptyString
    /\ reqs' = [reqs EXCEPT ![t].pc = "resolve",
                            ![t].key = Join(ExtractBearer(reqs[t].auth))]
    /\ UNCHANGED <<now, cache, mu, calls, last, nMint, boot, issued, api>>

\* ts.GetGitHubToken(mcpToken) at line 300; the calls that return at once run
\* lines 301-321 in the same step
CallGetGitHubToken(t) ==
    /\ reqs[t].pc = "resolve"
    /\ \/ ResolveUnmapped(t, reqs[t].key)
       \/ ResolveDirect(t, reqs[t].key)
       \/ ResolveInvalidId(t, reqs[t].key)
       \/ ResolveInstallation(t, reqs[t].key)

\* StartProtocol binding the credential of whichever call returned last.
StartProtocolSharedToken(t) ==
    /\ reqs[t].pc = "resolved"
    /\ reqs' = [reqs EXCEPT ![t].pc = "serving", ![t].ctx = last.cred,
                            ![t].resp = ErrorResponse(200, "")]
    /\ UNCHANGED <<now, cache, mu, calls, last, nMint, boot, issued, api>>

\* WriteHeader(200), ContextWithGitHubToken(r.Context(), ghToken) and
\* ghServer.Run(ctx, transport) (lines 327-348)
StartProtocol(t) ==
    /\ reqs[t].pc = "resolved"
    /\ reqs' = [reqs EXCEPT ![t].pc = "serving", ![t].ctx = reqs[t].ghToken,
                            ![t].resp = ErrorResponse(200, "")]
    /\ UNCHANGED <<now, cache, mu, calls, last, nMint, boot, issued, api>>

\* the client disconnects: ghServer.Run returns nil, the writer adapter is
\* closed and the handler ends (348-361)
ClientDisconnect(t) ==
    /\ reqs[t].pc = "serving"
    /\ reqs' = [reqs EXCEPT ![t] =
                  [IdleReq EXCEPT !.resp = reqs[t].resp, !.closed = TRUE]]
    /\ UNCHANGED <<now, cache, mu, calls, last, nMint, boot, issued, api>>

\* ProtocolError answering the error with a 500 body.
ProtocolErrorAnswers500(t) ==
    /\ reqs[t].pc = "serving"
    /\ reqs' = [reqs EXCEPT ![t] =
                  [IdleReq EXCEPT !.resp = ErrorResponse(500, "internal_error"),
                                  !.closed = TRUE, !.logged = TRUE]]
    /\ UNCHANGED <<now, cache, mu, calls, last, nMint, boot, issued, api>>

\* ghServer.Run returns an error: it is logged, the writer adapter is closed
\* and the handler ends (348-361)
ProtocolError(t) ==
    /\ reqs[t].pc = "serving"
    /\ reqs' = [reqs EXCEPT ![t] =
                  [IdleReq EXCEPT !.resp = reqs[t].resp,
                                  !.closed = TRUE, !.logged = TRUE]]
    /\ UNCHANGED <<now, cache, mu, calls, last, nMint, boot, issued, api>>

\* CancelInbound that tears the in-flight mint down with the connection.
CancelInboundAbortsMint(t) ==
    /\ reqs[t].pc = "resolve"
    /\ ~reqs[t].cancelled
    /\ calls[t].pc \in {"mint", "http", "lock_store"}
    /\ reqs' = [reqs EXCEPT ![t] = IdleReq]
    /\ calls' = [calls EXCEPT ![t] = IdleCall]
    /\ UNCHANGED <<now, cache, mu, last, nMint, boot, issued, api>>

\* the inbound connection closes while GetGitHubToken is running: r.Context()
\* is cancelled; GetGitHubToken takes no context and the mint request is
\* built on context.Background() (tokenstore.go 200)
CancelInbound(t) ==
    /\ reqs[t].pc = "resolve"
    /\ ~reqs[t].cancelled
    /\ calls[t].pc \in {"mint", "http", "lock_store"}
    /\ reqs' = [reqs EXCEPT ![t].cancelled = TRUE]
    /\ UNCHANGED <<now, cache, mu, calls, last, nMint, boot, issued, api>>

\* ------------------------------------------------- main, main.go 105-382

\* main has parsed its flags and is about to read the environment.
Starting(env) ==
    [pc |-> "start", env |-> env, store |-> "none", code |-> 0,
     validated |-> FALSE, cfg |-> NilConfig, err |-> NilError]

\* os.Exit(code) or log.Fatalf
Exit(code) == boot' = [boot EXCEPT !.pc = "exited", !.code = code]

StoreUntouched == UNCHANGED <<now, cache, mu, calls, last, nMint, reqs, issued, api>>

\* NewEnvTokenStoreFromEnv: the unset variable gives an empty mapping and no
\* error, otherwise the JSON is unmarshalled (tokenstore.go 40-50)
MainLoadTokenMap ==
    /\ boot.pc = "start"
    /\ \/ boot.env.tokenMap.kind = "unset"
       \/ ~JsonUnmarshalMap(boot.env.tokenMap).err
    /\ boot' = [boot EXCEPT !.pc = "select"]
    /\ StoreUntouched

\* the JSON does not unmarshal: os.Exit(2) (main.go 134-141)
MainLoadTokenMapFails ==
    /\ boot.pc = "start"
    /\ boot.env.tokenMap.kind # "unset"
    /\ JsonUnmarshalMap(boot.env.tokenMap).err
    /\ Exit(2)
    /\ StoreUntouched

\* appIDStr != "" && pkb64 != ""
AppCredentialsSet(env) == env.appID # EmptyString /\ env.key.enc # "unset"

\* not both App variables set: ts = envStore (main.go 178-181)
MainUseEnvStore ==
    /\ boot.pc = "select"
    /\ ~AppCredentialsSet(boot.env)
    /\ boot' = [boot EXCEPT !.pc = "create", !.store = "env"]
    /\ StoreUntouched

\* strconv.ParseInt(appIDStr, 10, 64) fails: os.Exit(2) (main.go 152-160)
MainBadAppId ==
    /\ boot.pc = "select"
    /\ AppCredentialsSet(boot.env)
    /\ ParseInt(boot.env.appID).err
    /\ Exit(2)
    /\ StoreUntouched

\* NewInstallationTokenStore fails on the private key: os.Exit(2) (168-175)
MainBadKey ==
    /\ boot.pc = "select"
    /\ AppCredentialsSet(boot.env)
    /\ ~ParseInt(boot.env.appID).err
    /\ ~ParsesAsRsaKey(KeyBytes(boot.env.key))
    /\ Exit(2)
    /\ StoreUntouched

\* ts = instStore (main.go 148-177)
MainUseInstallationStore ==
    /\ boot.pc = "select"
    /\ AppCredentialsSet(boot.env)
    /\ ~ParseInt(boot.env.appID).err
    /\ ParsesAsRsaKey(KeyBytes(boot.env.key))
    /\ boot' = [boot EXCEPT !.pc = "create", !.store = "installation"]
    /\ StoreUntouched

\* NewMCPServer or ListenAndServe fails: log.Fatalf (main.go 192-198, 376-381)
MainFatal ==
    /\ boot.pc = "create"
    /\ Exit(1)
    /\ StoreUntouched

\* the mux is built and srv.ListenAndServe() is accepting (main.go 202-376)
MainListen ==
    /\ boot.pc = "create"
    /\ boot' = [boot EXCEPT !.pc = "listening"]
    /\ StoreUntouched

\* ValidateConfig run in the same environment (part_006 43-74)
Validate ==
    /\ ~boot.validated
    /\ boot' = [boot EXCEPT !.validated = TRUE,
                            !.cfg = ValidateConfig(boot.env).cfg,
                            !.err = ValidateConfig(boot.env).err]
    /\ StoreUntouched

\* ------------------------------------- WriteGitHubAPIError, handlers.go

\* a tool's call of the upstream API comes back failed with (resp, err)
UpstreamFails(resp, err) ==
    /\ api.pc = "idle"
    /\ api' = [NoFailure EXCEPT !.pc = "failed", !.resp = resp, !.err = err]
    /\ UNCHANGED <<now, cache, mu, calls, last, nMint, reqs, boot, issued>>

\* WriteGitHubAPIError (handlers.go 239-243): the error is classified and
\* written with the status of its type
WriteGitHubAPIError ==
    /\ api.pc = "failed"
    /\ api' = [api EXCEPT
                 !.pc = "written",
                 !.out = NewGitHubAPIErrorFromResponse(api.resp, api.err),
                 !.status = MapErrorTypeToHTTPStatus(
                                NewGitHubAPIErrorFromResponse(api.resp, api.err).Type)]
    /\ UNCHANGED <<now, cache, mu, calls, last, nMint, reqs, boot, issued>>

\* the tool call has ended with the error it was answered
ToolReturns ==
    /\ api.pc = "written"
    /\ api' = NoFailure
    /\ UNCHANGED <<now, cache, mu, calls, last, nMint, reqs, boot, issued>>

\* --------------------------------------------------------------- environment

\* one minute passes
Tick ==
    /\ now < MaxTime
    /\ now' = now + 1
    /\ last' = [last EXCEPT !.elapsed = TRUE]
    /\ UNCHANGED <<cache, mu, calls, nMint, reqs, boot, issued, api>>

\* The expires_at values the issuing endpoint may answer with.
ExpiresAtValues ==
    {[ok |-> FALSE, life |-> 0]} \cup { [ok |-> TRUE, life |-> d] : d \in Lifetimes }

\* The steps of the goroutines T calling with the keys K, of the issuing
\* endpoint answering with a token or not (H) and an expires_at of E, and of
\* the clock.
Step(T, K, H, E) ==
    \/ \E t \in T, k \in K : ResolveUnmapped(t, k)
    \/ \E t \in T, k \in K : ResolveDirect(t, k)
    \/ \E t \in T, k \in K : ResolveInvalidId(t, k)
    \/ \E t \in T, k \in K : ResolveInstallation(t, k)
    \/ \E t \in T : LockLookup(t)
    \/ \E t \in T : CacheHit(t)
    \/ \E t \in T : CacheMiss(t)
    \/ \E t \in T : MintSignError(t)
    \/ \E t \in T : MintRequest(t)
    \/ \E t \in T : MintNetworkError(t)
    \/ \E t \in T : MintBadStatus(t)
    \/ \E t \in T : MintBadBody(t)
    \/ \E t \in T, h \in H, e \in E : MintResponse(t, h, e)
    \/ \E t \in T : LockStore(t)
    \/ \E t \in T : CacheStore(t)
    \/ Tick

\* Concurrent callers; the issuing endpoint answers with a token that lives
\* MaxLifetime minutes.
Next == Step(Threads, ConcurrentKeys, {TRUE}, {[ok |-> TRUE, life |-> MaxLifetime]})

Spec == Init /\ [][Next]_vars

\* One caller at a time; the issuing endpoint answers with or without a token
\* and with any expires_at.
SeqNext == Step({"t1"}, ConcurrentKeys, BOOLEAN, ExpiresAtValues)

SeqSpec == Init /\ [][SeqNext]_vars

\* One caller at a time, over every caller key.
ParseNext == Step({"t1"}, CallerKeys, {TRUE}, {[ok |-> TRUE, life |-> MaxLifetime]})

ParseSpec == Init /\ [][ParseNext]_vars

\* The server handling requests on two goroutines; the issuing endpoint
\* answers with a token that lives MaxLifetime minutes.
GatewayNext ==
    \/ \E t \in Threads, m \in Methods, a \in AuthHeaders : Receive(t, m, a)
    \/ \E t \in Threads : HandleMethodNotAllowed(t)
    \/ \E t \in Threads : HandleMissingAuthorization(t)
    \/ \E t \in Threads : HandleAuthorized(t)
    \/ \E t \in Threads : CallGetGitHubToken(t)
    \/ \E t \in Threads : LockLookup(t)
    \/ \E t \in Threads : CacheHit(t)
    \/ \E t \in Threads : CacheMiss(t)
    \/ \E t \in Threads : MintSignError(t)
    \/ \E t \in Threads : MintRequest(t)
    \/ \E t \in Threads : MintNetworkError(t)
    \/ \E t \in Threads : MintBadStatus(t)
    \/ \E t \in Threads : MintBadBody(t)
    \/ \E t \in Threads : MintResponse(t, TRUE, [ok |-> TRUE, life |-> MaxLifetime])
    \/ \E t \in Threads : LockStore(t)
    \/ \E t \in Threads : CacheStore(t)
    \/ \E t \in Threads : CancelInbound(t)
    \/ \E t \in Threads : StartProtocol(t)
    \/ \E t \in Threads : ClientDisconnect(t)

GatewaySpec == Init /\ [][GatewayNext]_vars

\* Authorization header values put together from a scheme word, a separator
\* and a token part.
BearerSchemes ==
    { EmptyString, Bearer,
      <<"b", "e", "a", "r", "e", "r">>,
      <<"B", "E", "A", "R", "E", "R">>,
      <<"b", "E", "a", "R", "e", "r">>,
      <<"B", "a", "s", "i", "c">>,
      <<"B", "e", "a", "r", "e">>,
      <<"B", "e", "a", "r", "e", "r", "s">> }

BearerSeparators == { EmptyString, <<" ">>, <<" ", " ">>, <<"\t">> }

BearerTokens ==
    { EmptyString, <<"k", "A">>, <<" ", "k", "D", " ">>, <<"k", " ", "A">>,
      <<"\t", "k", "X", "\n">>, <<" ">>, <<"\r", "\t">>, <<"k", "U">> }

BearerHeaders ==
    { s \o p \o k : s \in BearerSchemes, p \in BearerSeparators, k \in BearerTokens }

\* The server handling one request at a time, with every header of
\* BearerHeaders.
BearerNext ==
    \/ \E m \in Methods, a \in BearerHeaders : Receive("t1", m, a)
    \/ HandleMethodNotAllowed("t1")
    \/ HandleMissingAuthorization("t1")
    \/ HandleAuthorized("t1")
    \/ CallGetGitHubToken("t1")
    \/ LockLookup("t1")
    \/ CacheHit("t1")
    \/ CacheMiss("t1")
    \/ MintSignError("t1")
    \/ MintRequest("t1")
    \/ MintNetworkError("t1")
    \/ MintBadStatus("t1")
    \/ MintBadBody("t1")
    \/ MintResponse("t1", TRUE, [ok |-> TRUE, life |-> MaxLifetime])
    \/ LockStore("t1")
    \/ CacheStore("t1")
    \/ StartProtocol("t1")
    \/ ClientDisconnect("t1")
    \/ ProtocolError("t1")

BearerSpec == Init /\ [][BearerNext]_vars

\* Upstream calls failing in every way of UpstreamResponses and
\* UpstreamErrors, as the clock runs.
ErrorNext ==
    \/ \E resp \in UpstreamResponses, err \in UpstreamErrors : UpstreamFails(resp, err)
    \/ WriteGitHubAPIError
    \/ ToolReturns
    \/ Tick

ErrorSpec == Init /\ [][ErrorNext]_vars

\* The callers of the fair specification: one installation key, a direct
\* credential, a malformed reference and a key with no entry.
LiveKeys == {"kA", "kD", "kX", "kU"}

LiveNext == Step(Threads, LiveKeys, {TRUE}, {[ok |-> TRUE, life |-> MaxLifetime]})

\* What the runtime guarantees a goroutine inside GetGitHubToken: it is
\* scheduled (WF on its own steps), a goroutine waiting in Lock() gets the
\* mutex in the end (sync.Mutex hands over to a starving waiter: SF), and
\* client.Do returns an error once the 10 second Timeout has passed if
\* nothing came back before (WF on MintNetworkError).  Nothing is assumed of
\* the issuing endpoint: it need never answer.
Fairness ==
    \A t \in Threads :
        /\ SF_vars(LockLookup(t))
        /\ SF_vars(LockStore(t))
        /\ WF_vars(CacheHit(t))
        /\ WF_vars(CacheMiss(t))
        /\ WF_vars(MintSignError(t) \/ MintRequest(t))
        /\ WF_vars(MintNetworkError(t))
        /\ WF_vars(CacheStore(t))

LiveSpec == Init /\ [][LiveNext]_vars /\ Fairness

\* What the runtime guarantees whatever the issuing endpoint and the network
\* do: a goroutine at the mutex or holding it is scheduled, and a goroutine
\* waiting in Lock() gets the mutex in the end.  Nothing is assumed of the
\* steps of a mint: a mint may stall for good.
LockFairness ==
    \A t \in Threads :
        /\ SF_vars(LockLookup(t))
        /\ SF_vars(LockStore(t))
        /\ WF_vars(CacheHit(t))
        /\ WF_vars(CacheMiss(t))
        /\ WF_vars(CacheStore(t))

StallSpec == Init /\ [][LiveNext]_vars /\ LockFairness

\* main started in each environment, and ValidateConfig run in it.
ConfigInit ==
    /\ StoreInit
    /\ boot \in { Starting(env) : env \in Envs }

ConfigNext ==
    \/ MainLoadTokenMap
    \/ MainLoadTokenMapFails
    \/ MainUseEnvStore
    \/ MainBadAppId
    \/ MainBadKey
    \/ MainUseInstallationStore
    \/ MainFatal
    \/ MainListen
    \/ Validate

ConfigSpec == ConfigInit /\ [][ConfigNext]_vars

\* -------------------------------------------------------------------- claims

\* The installation id a caller key maps to (0 when its value names none).
IdOfKey(k) ==
    IF k \in DOMAIN mapping
    THEN ParseInt(TrimPrefix(mapping[k], InstallationPrefix)).val
    ELSE 0

\* The mapped value starts with the thirteen characters "installation:".
StartsWithInstallation(v) ==
    /\ Len(v) >= Len(InstallationPrefix)
    /\ \A i \in 1..Len(InstallationPrefix) : v[i] = InstallationPrefix[i]

\* A call that returns without passing through the cache check or a mint
\* takes one step and leaves the goroutines where they were.
ReturnsAtOnce == now' = now /\ calls' = calls

\* Goroutine t takes the step that follows its cache lookup.
LeavesLookup(t) == calls[t].pc = "lookup" /\ calls'[t].pc # "lookup"

\* C1: a caller key that has no mapping entry, the empty string included,
\* resolves to found = false with an empty credential, without a mint request
\* and without taking the mutex, and the step leaves the cache, the mutex and
\* the issuing endpoint untouched.
C1_UnmappedNotFound ==
    /\ []((last.path # "none" /\ last.key \notin DOMAIN mapping)
          => (/\ last.path = "unmapped"
              /\ ~last.found
              /\ last.cred = EmptyString
              /\ last.mints = 0
              /\ last.locks = 0))
    /\ [][(ReturnsAtOnce /\ last'.key \notin DOMAIN mapping)
          => (cache' = cache /\ mu' = mu /\ nMint' = nMint)]_vars

C1_Witness ==
    /\ last.path = "unmapped"
    /\ last.key = ""
    /\ cache # << >>

\* C2: a caller key whose mapped value does not start with installation:
\* resolves to exactly that value with found = true, without a mint request and
\* without taking the mutex that guards the cache, and the step leaves the
\* cache untouched, whatever it holds.
C2_DirectVerbatim ==
    /\ []((last.key \in DOMAIN mapping /\ ~StartsWithInstallation(mapping[last.key]))
          => (/\ last.path = "direct"
              /\ last.found
              /\ last.cred = mapping[last.key]
              /\ last.mints = 0
              /\ last.locks = 0))
    /\ [][(/\ ReturnsAtOnce
           /\ last'.key \in DOMAIN mapping
           /\ ~StartsWithInstallation(mapping[last'.key]))
          => (cache' = cache /\ mu' = mu /\ nMint' = nMint)]_vars

C2_Witness ==
    /\ last.path = "direct"
    /\ last.key = "kN"
    /\ last.cred = mapping["kN"]
    /\ cache # << >>

\* The suffix after installation: is not a number or is a number <= 0.
BadSuffix(v) ==
    LET r == ParseInt(SubSeq(v, Len(InstallationPrefix) + 1, Len(v)))
    IN  r.err \/ r.val <= 0

\* C3: a caller key whose mapped value is installation:<suffix> with a suffix
\* that is not a number, or is zero or negative, resolves to found = false and
\* is never answered with the mapped string as a direct credential.
C3_BadSuffixNotFound ==
    (/\ last.key \in DOMAIN mapping
     /\ StartsWithInstallation(mapping[last.key])
     /\ BadSuffix(mapping[last.key]))
    => (~last.found /\ last.path # "direct")

\* C4: a lookup that finds an entry for its installation with more than one
\* minute left returns that entry's credential with found = true, has sent no
\* mint request and leaves the cache as it is, also while other calls are in
\* progress.
C4_CacheWindow ==
    [][\A t \in Threads :
          (/\ LeavesLookup(t)
           /\ calls[t].id \in DOMAIN cache
           /\ cache[calls[t].id].expiry - now > Minute)
          => (/\ calls'[t].pc = "idle"
              /\ last'.path = "hit"
              /\ last'.key = calls[t].key
              /\ last'.found
              /\ last'.cred = cache[calls[t].id].token
              /\ last'.mints = 0
              /\ nMint' = nMint
              /\ cache' = cache)]_vars

C4_Witness ==
    /\ last.path = "hit"
    /\ \E t \in Threads, u \in Threads :
          /\ t # u
          /\ calls[t].pc = "lookup"
          /\ calls[t].id = last.id
          /\ cache[last.id].expiry - now > Minute
          /\ cache[last.id].token = last.cred
          /\ calls[u].pc = "lock_lookup"
          /\ calls[u].id = last.id

\* C5: a lookup that finds an entry with one minute or less left (exactly one
\* minute and already expired included) does not return it: the call goes on
\* to mint, and a call whose mint fails returns found = false with an empty
\* credential.
C5_RenewalMargin ==
    /\ [][\A t \in Threads :
            (/\ LeavesLookup(t)
             /\ calls[t].id \in DOMAIN cache
             /\ cache[calls[t].id].expiry - now <= Minute)
            => (/\ calls'[t].pc = "mint"
                /\ last' = last
                /\ cache' = cache)]_vars
    /\ [](last.path = "mint_failed" => (~last.found /\ last.cred = EmptyString))

C5_Witness ==
    /\ last.path = "mint_failed"
    /\ ~last.elapsed
    /\ last.id \in DOMAIN cache
    /\ cache[last.id].expiry - now = Minute

\* The cache after storing tok with expiry exp under id.
CacheWith(id, tok, exp) ==
    [i \in DOMAIN cache \cup {id} |->
        IF i = id THEN [token |-> tok, expiry |-> exp] ELSE cache[i]]

\* The call that stores its minted token has sent exactly one mint request,
\* overwrites the entry of its installation and returns the token it stored.
MintedTokenStored ==
    \A t \in Threads :
        (calls[t].pc = "store" /\ calls'[t].pc = "idle")
        => (/\ calls[t].mints = 1
            /\ cache' = CacheWith(calls[t].id, calls[t].tok, calls[t].exp)
            /\ last'.path = "minted"
            /\ last'.key = calls[t].key
            /\ last'.found
            /\ last'.cred = calls[t].tok
            /\ last'.mints = 1)

\* The lookup of goroutine t belongs to the call that immediately follows a
\* minting call of the same key: nothing returned and no time passed between.
FollowsMint(t) ==
    /\ LeavesLookup(t)
    /\ last.path = "minted"
    /\ last.key = calls[t].key
    /\ ~last.elapsed

\* The lookup of goroutine t is answered from the cache with the credential
\* the last call returned, without a mint request.
HitsLastCredential(t) ==
    /\ calls'[t].pc = "idle"
    /\ last'.path = "hit"
    /\ last'.key = calls[t].key
    /\ last'.found
    /\ last'.cred = last.cred
    /\ last'.mints = 0
    /\ nMint' = nMint
    /\ cache' = cache

C7_FailedMintLeavesCache ==
    [][\A t \in Threads :
          (calls[t].pc \in {"mint", "http"} /\ calls'[t].pc = "idle")
          => (/\ last'.path = "mint_failed"
              /\ last'.key = calls[t].key
              /\ ~last'.found
              /\ last'.cred = EmptyString
              /\ cache' = cache)]_vars

C7_Witness ==
    /\ last.path = "mint_failed"
    /\ last.mints = 1
    /\ ~last.found
    /\ last.id \in DOMAIN cache
    /\ cache[last.id].expiry - now <= Minute

\* The tokens the issuing endpoint hands out for installation id.
TokensOf(id) == { IssuedToken(id, n) : n \in 1..MaxMints }

\* C8: under any interleaving, a call that returns found = true returns the
\* direct value mapped to its own key or a token issued for the installation
\* its own key maps to; a call in progress holds, and the cache keeps under
\* each installation id, only tokens issued for that installation.
C8_Isolation ==
    /\ last.found
        => /\ last.key \in DOMAIN mapping
           /\ IF StartsWithInstallation(mapping[last.key])
              THEN last.cred \in TokensOf(IdOfKey(last.key))
              ELSE last.cred = mapping[last.key]
    /\ \A t \in Threads :
          calls[t].pc \in {"lock_store", "store"}
          => calls[t].tok \in TokensOf(IdOfKey(calls[t].key))
    /\ \A i \in DOMAIN cache : cache[i].token \in TokensOf(i)

C8_Witness ==
    /\ last.found
    /\ last.key = "kC"
    /\ last.cred \in TokensOf(2)
    /\ \E t \in Threads, u \in Threads :
          /\ calls[t].pc = "store"
          /\ calls[t].key = "kA"
          /\ calls[t].tok \in TokensOf(1)
          /\ calls[u].pc = "lock_lookup"
          /\ calls[u].key = "kC"

\* C9: the cache key of a call is the installation id its mapping value
\* names, whichever caller key presented it; so a token minted while resolving
\* one key is served, while more than a minute is left, as a cache hit without
\* a mint request to a call with another key of the same installation.
C9_SharedAcrossKeys ==
    /\ [](\A t \in Threads :
            calls[t].pc # "idle" => calls[t].id = IdOfKey(calls[t].key))
    /\ [][\A t \in Threads :
            (/\ LeavesLookup(t)
             /\ last.path = "minted"
             /\ last.key # calls[t].key
             /\ IdOfKey(last.key) = IdOfKey(calls[t].key)
             /\ IdOfKey(last.key) \in DOMAIN cache
             /\ cache[IdOfKey(last.key)].token = last.cred
             /\ cache[IdOfKey(last.key)].expiry - now > Minute)
            => HitsLastCredential(t)]_vars

C9_Witness ==
    /\ last.path = "minted"
    /\ last.key = "kA"
    /\ \E t \in Threads :
          /\ calls[t].pc = "lookup"
          /\ calls[t].key = "kB"
          /\ calls[t].id \in DOMAIN cache
          /\ cache[calls[t].id].token = last.cred
          /\ cache[calls[t].id].expiry - now > Minute

\* Goroutine t has observed a cache miss and sent its mint request.
Minting(t) == calls[t].pc \in {"http", "lock_store", "store"}

\* C10 as stated: the lookup and the insert form one critical section, so no
\* two calls for the same installation have both observed a miss and both
\* sent a mint request.
C10_NoDoubleMint ==
    \A t \in Threads, u \in Threads :
        (t # u /\ Minting(t) /\ Minting(u)) => calls[t].id # calls[u].id

\* C10, amended: the lookup and the insert are two separate critical sections
\* of the one mutex: a call holds the mutex exactly while it looks the cache
\* up and while it stores its token, and not while it mints in between.
C10_TwoCriticalSections ==
    /\ mu \in Threads \cup {"free"}
    /\ \A t \in Threads : (mu = t) <=> (calls[t].pc \in {"lookup", "store"})

C10_Witness ==
    \E t \in Threads, u \in Threads :
        /\ t # u
        /\ calls[t].pc = "http"
        /\ calls[u].pc = "lookup"
        /\ calls[t].id = calls[u].id
        /\ mu = u

\* C11: a request to /mcp whose method is not POST is answered 405
\* method_not_allowed with the received method and the required method POST
\* in the details, whatever its Authorization header; it never gets to the
\* bearer check, to GetGitHubToken or to the protocol handler.
Handled(t) == reqs[t].pc = "received" /\ reqs'[t] # reqs[t]

C11_MethodCheckedFirst ==
    /\ [](\A t \in Threads :
            (reqs[t].pc \in {"resolve", "resolved", "serving"})
                => (reqs[t].method = "POST"))
    /\ [][\A t \in Threads :
            (Handled(t) /\ reqs[t].method # "POST")
                => (/\ reqs'[t].pc = "none"
                    /\ reqs'[t].resp.status = 405
                    /\ reqs'[t].resp.type = "method_not_allowed"
                    /\ reqs'[t].resp.received = reqs[t].method
                    /\ reqs'[t].resp.required = "POST"
                    /\ calls'[t] = calls[t]
                    /\ calls[t].pc = "idle"
                    /\ UNCHANGED <<cache, mu, last, nMint>>)]_vars

\* A PUT that carried a mapped bearer key was answered 405.
C11_Witness ==
    \E t \in Threads :
        /\ reqs[t].pc = "none"
        /\ reqs[t].resp.status = 405
        /\ reqs[t].resp.received = "PUT"
        /\ reqs[t].resp.bearer

\* C12: a POST to /mcp whose Authorization header is absent, has a scheme
\* other than Bearer or has an empty token after trimming is answered 401
\* missing_authorization without GetGitHubToken being called; a POST whose
\* bearer key GetGitHubToken does not find is answered 401 invalid_token; the
\* two error types are never interchanged.
SchemeOf(a) ==
    IF \E i \in 1..Len(a) : a[i] = " "
    THEN SubSeq(a, 1, (CHOOSE i \in 1..Len(a) :
                          a[i] = " " /\ \A j \in 1..(i - 1) : a[j] # " ") - 1)
    ELSE a

CredentialsOf(a) ==
    IF \E i \in 1..Len(a) : a[i] = " "
    THEN SubSeq(a, Len(SchemeOf(a)) + 2, Len(a))
    ELSE EmptyString

NoBearerKey(a) ==
    \/ a = EmptyString
    \/ ToLower(SchemeOf(a)) # ToLower(Bearer)
    \/ \A i \in 1..Len(CredentialsOf(a)) : CredentialsOf(a)[i] \in WhiteSpace

OwnCredential(k, c) ==
    /\ k \in DOMAIN mapping
    /\ IF StartsWithInstallation(mapping[k])
       THEN c \in TokensOf(IdOfKey(k))
       ELSE c = mapping[k]

C13_OwnCredentialBound ==
    /\ [](\A t \in Threads :
            /\ (reqs[t].pc \in {"resolved", "serving"})
                 => OwnCredential(reqs[t].key, reqs[t].ghToken)
            /\ (reqs[t].pc = "serving")
                 => (reqs[t].ctx = reqs[t].ghToken /\ reqs[t].resp.status = 200)
            /\ (reqs[t].pc \in {"received", "resolve", "resolved"})
                 => (reqs[t].resp.status # 200))
    /\ [][\A t \in Threads :
            /\ (reqs[t].pc # "resolved" /\ reqs'[t].pc = "resolved")
                 => (/\ reqs[t].pc = "resolve"
                     /\ last'.found
                     /\ last'.key = reqs[t].key
                     /\ reqs'[t].key = reqs[t].key
                     /\ reqs'[t].ghToken = last'.cred)
            /\ (reqs[t].pc # "serving" /\ reqs'[t].pc = "serving")
                 => (/\ reqs[t].pc = "resolved"
                     /\ reqs'[t].ctx = reqs[t].ghToken)]_vars

\* Two requests are being served at once, one with a token of installation 1
\* and one with a token of installation 2, the second resolved last.
C13_Witness ==
    \E t, u \in Threads :
        /\ reqs[t].pc = "serving"
        /\ reqs[t].key = "kA"
        /\ reqs[t].ctx \in TokensOf(1)
        /\ reqs[u].pc = "serving"
        /\ reqs[u].key = "kC"
        /\ reqs[u].ctx \in TokensOf(2)
        /\ last.key = "kC"

\* C14: every resolution failure of a request (unmapped key, malformed
\* installation reference, failed mint) becomes a 401 answer to that request
\* only; the protocol handler is not started for it, the server keeps
\* listening, the goroutine holds nothing of the store afterwards and the
\* other requests go on untouched.
ResolveReturned(t) == reqs[t].pc = "resolve" /\ reqs'[t].pc # "resolve"

InstallationOfPositiveInt(v) ==
    /\ StartsWithInstallation(v)
    /\ ~ParseInt(SubSeq(v, Len(InstallationPrefix) + 1, Len(v))).err
    /\ ParseInt(SubSeq(v, Len(InstallationPrefix) + 1, Len(v))).val > 0

NonEmptyObjectOfStrings(doc) ==
    /\ doc.kind = "object"
    /\ DOMAIN doc.members # {}
    /\ \A k \in DOMAIN doc.members : doc.members[k].type = "string"

InvalidStartupConfig(env) ==
    \/ ~NonEmptyObjectOfStrings(env.tokenMap)
    \/ (env.appID = EmptyString) # (env.key.enc = "unset")
    \/ /\ env.appID # EmptyString
       /\ env.key.enc # "unset"
       /\ \E k \in DOMAIN env.tokenMap.members :
             ~InstallationOfPositiveInt(env.tokenMap.members[k].s)

C15_NeverServesInvalidConfig ==
    (boot.pc = "listening") => ~InvalidStartupConfig(boot.env)

\* C16: ValidateConfig returns a Config and no error exactly when the token
\* map is a non-empty JSON object of strings and either both App variables
\* are unset, or both are set with a positive integer App ID, a key that
\* contains the PEM private-key markers and only installation:<positive int>
\* mapping values; otherwise it returns a nil Config and a ValidationError
\* whose Field names a variable that is at fault.
PositiveInt(v) == ~ParseInt(v).err /\ ParseInt(v).val > 0

HasPemMarkers(key) ==
    /\ \E i \in 1..Len(key.text) : key.text[i] = "BEGIN"
    /\ \E i \in 1..Len(key.text) : key.text[i] = "PRIVATE KEY"

AcceptableConfig(env) ==
    /\ NonEmptyObjectOfStrings(env.tokenMap)
    /\ \/ (env.appID = EmptyString /\ env.key.enc = "unset")
       \/ /\ env.appID # EmptyString
          /\ env.key.enc # "unset"
          /\ PositiveInt(env.appID)
          /\ HasPemMarkers(env.key)
          /\ \A k \in DOMAIN env.tokenMap.members :
                InstallationOfPositiveInt(env.tokenMap.members[k].s)

VariablesAtFault(env) ==
    (IF ~NonEmptyObjectOfStrings(env.tokenMap) THEN {TokenMapEnv} ELSE {})
    \cup (IF env.appID = EmptyString /\ env.key.enc # "unset"
          THEN {"GITHUB_APP_ID"} ELSE {})
    \cup (IF env.appID # EmptyString /\ env.key.enc = "unset"
          THEN {"GITHUB_APP_PRIVATE_KEY_B64"} ELSE {})
    \cup (IF env.appID # EmptyString /\ ~PositiveInt(env.appID)
          THEN {"GITHUB_APP_ID"} ELSE {})
    \cup (IF env.key.enc # "unset" /\ ~HasPemMarkers(env.key)
          THEN {"GITHUB_APP_PRIVATE_KEY_B64"} ELSE {})
    \cup (IF /\ env.appID # EmptyString
             /\ env.key.enc # "unset"
             /\ NonEmptyObjectOfStrings(env.tokenMap)
             /\ \E k \in DOMAIN env.tokenMap.members :
                   ~InstallationOfPositiveInt(env.tokenMap.members[k].s)
          THEN {TokenMapEnv} ELSE {})

RECURSIVE SplitDots(_)
SplitDots(s) ==
    IF \E i \in 1..Len(s) : s[i] = "."
    THEN LET i == CHOOSE i \in 1..Len(s) : s[i] = "." /\ \A j \in 1..(i - 1) : s[j] # "."
         IN  <<SubSeq(s, 1, i - 1)>> \o SplitDots(SubSeq(s, i + 1, Len(s)))
    ELSE <<s>>

IsRawBase64Url(seg) ==
    /\ Len(seg) > 0
    /\ Len(seg) % 4 # 1
    /\ \A i \in 1..Len(seg) : \E j \in 1..Len(Base64Url) : Base64Url[j] = seg[i]

SextetOf(c) == (CHOOSE j \in 1..Len(Base64Url) : Base64Url[j] = c) - 1

RECURSIVE RawURLDecode(_)
RawURLDecode(c) ==
    IF Len(c) < 2 THEN << >>
    ELSE LET b1 == SextetOf(c[1]) * 4 + (SextetOf(c[2]) \div 16)
         IN  IF Len(c) = 2 THEN <<b1>>
             ELSE LET b2 == (SextetOf(c[2]) % 16) * 16 + (SextetOf(c[3]) \div 4)
                  IN  IF Len(c) = 3 THEN <<b1, b2>>
                      ELSE <<b1, b2, (SextetOf(c[3]) % 4) * 64 + SextetOf(c[4])>>
                           \o RawURLDecode(SubSeq(c, 5, Len(c)))

TextOf(bytes) == [i \in 1..Len(bytes) |-> Ascii[bytes[i] - 31]]

\* The integer written after "name": in a JSON text (-1 when there is none).
JsonIntField(text, name) ==
    LET pat == <<"\"">> \o name \o <<"\"", ":">>
        at(i) == i + Len(pat) - 1 <= Len(text) /\ SubSeq(text, i, i + Len(pat) - 1) = pat
    IN  IF \E i \in 1..Len(text) : at(i)
        THEN LET i == CHOOSE i \in 1..Len(text) : at(i)
                 from == i + Len(pat)
                 last_ == CHOOSE e \in (from - 1)..Len(text) :
                            /\ \A j \in from..e : text[j] \in DigitChars
                            /\ (e = Len(text) \/ text[e + 1] \notin DigitChars)
             IN  IF last_ < from THEN -1 ELSE DecimalValue(SubSeq(text, from, last_))
        ELSE -1

AssertionMadeAt(jwt, unix) ==
    LET segs    == SplitDots(jwt)
        payload == TextOf(RawURLDecode(segs[2]))
        iat     == JsonIntField(payload, <<"i", "a", "t">>)
        exp     == JsonIntField(payload, <<"e", "x", "p">>)
        iss     == JsonIntField(payload, <<"i", "s", "s">>)
    IN  /\ Len(segs) = 3
        /\ \A k \in 1..3 : IsRawBase64Url(segs[k])
        /\ TextOf(RawURLDecode(segs[1])) = HeaderJSON
        /\ iss = 7
        /\ iat = unix
        /\ exp = iat + 540
        /\ exp - iat <= 600

C17_FreshAssertion ==
    /\ [](\A t \in Threads : (calls[t].pc # "http") => (calls[t].jwt = EmptyString))
    /\ [][\A t \in Threads :
            (calls[t].pc = "mint" /\ calls'[t].pc = "http")
                => AssertionMadeAt(calls'[t].jwt, 1700000000 + 60 * now)]_vars

\* A second mint of the same call sequence, two minutes after the first, is
\* in flight with an assertion made at minute 2.
C17_Witness ==
    \E t \in Threads :
        /\ calls[t].pc = "http"
        /\ now = 2
        /\ last.path = "minted"
        /\ AssertionMadeAt(calls[t].jwt, 1700000120)

\* C18: when the inbound connection of a request closes while its mint is
\* in flight the mint is not aborted: the call leaves the mint only by one of
\* its regular returns, a mint the issuer answered is stored in the cache
\* under its installation, and a later call for that installation is served
\* the stored token as a cache hit.
InMint(t) == calls[t].pc \in {"mint", "http", "lock_store", "store"}

C18_CancelledMintCompletes ==
    [][\A t \in Threads :
         /\ (~reqs[t].cancelled /\ reqs'[t].cancelled)
              => (InMint(t) /\ UNCHANGED <<calls, cache, mu, last, nMint>>)
         /\ (InMint(t) /\ calls'[t].pc = "idle")
              => (/\ last'.key = calls[t].key
                  /\ last'.id = calls[t].id
                  /\ last'.path \in {"mint_failed", "minted"}
                  /\ reqs'[t].pc # "resolve")
         /\ (reqs[t].cancelled /\ calls[t].pc \in {"lock_store", "store"})
              => (/\ calls'[t].pc \in {"lock_store", "store", "idle"}
                  /\ (calls'[t].pc = "idle")
                        => (/\ last'.path = "minted"
                            /\ last'.cred = calls[t].tok
                            /\ calls[t].id \in DOMAIN cache'
                            /\ cache'[calls[t].id].token = calls[t].tok
                            /\ reqs'[t].pc = "resolved"))]_vars

\* The connection of a request was cancelled during its mint; its token was
\* stored all the same and has just been served to another request of the
\* same installation as a cache hit.
C18_Witness ==
    \E t, u \in Threads :
        /\ reqs[t].cancelled
        /\ reqs[t].pc \in {"resolved", "serving"}
        /\ reqs[u].pc = "resolved"
        /\ ~reqs[u].cancelled
        /\ last.path = "hit"
        /\ last.key = reqs[u].key
        /\ last.cred = reqs[t].ghToken
        /\ reqs[u].ghToken = reqs[t].ghToken
        /\ nMint = 1

\* C19: every GetGitHubToken call returns in the end, found or not, even
\* if the issuing endpoint never answers: the mint request is bounded by the
\* client's 10 second timeout, after which the mint fails and the call
\* returns not found.
C19_ResolveReturns ==
    \A t \in Threads : (calls[t].pc # "idle") ~> (calls[t].pc = "idle")

\* A call whose mint request was sent returned not found while the issuing
\* endpoint had not answered any request.
C19_Witness ==
    /\ last.path = "mint_failed"
    /\ last.mints = 1
    /\ ~last.found
    /\ nMint = 0

\* C20: for a caller key that has a mapping entry, two GetGitHubToken calls
\* of that key with no time elapsed and no other return between them give the
\* same found flag and the same credential.
RepeatReturns(t) ==
    /\ calls'[t].pc = "idle"
    /\ now' = now
    /\ (calls[t].pc # "idle" \/ last' # last)
    /\ last.path # "none"
    /\ ~last.elapsed
    /\ last'.key = last.key
    /\ last.key \in DOMAIN mapping

SameOutcome == last'.found = last.found /\ last'.cred = last.cred

WithinCacheWindow ==
    \/ last.path \in {"direct", "invalid_id"}
    \/ /\ last.path \in {"hit", "minted"}
       /\ last.id \in DOMAIN cache
       /\ cache[last.id].expiry - now > Minute

FallbackAnswered(t) ==
    /\ calls[t].pc = "http"
    /\ calls'[t].pc = "lock_store"
    /\ calls'[t].expErr
    /\ calls'[t].tok # EmptyString

\* The call of goroutine t that took the fallback stores and returns its
\* token: the mint has not failed.
FallbackCompletes(t) ==
    (/\ calls[t].pc \in {"lock_store", "store"}
     /\ calls[t].expErr
     /\ calls[t].tok # EmptyString)
    => /\ calls'[t].pc \in {"lock_store", "store", "idle"}
       /\ (calls'[t].pc = "idle")
             => /\ last'.path = "minted"
                /\ last'.found
                /\ last'.cred = calls[t].tok
                /\ calls[t].id \in DOMAIN cache'
                /\ cache'[calls[t].id] = [token |-> calls[t].tok, expiry |-> calls[t].exp]

AnswersWith(c) ==
    { n \in 1..Len(issued) : issued[n].token = c /\ issued[n].ok }

\* C22: when the issuer's answer carries an expires_at that parses, the
\* expiry kept for the token and then stored in the cache is the issuer's
\* expiry minus 1 minute; so a token served from the cache has an issuer
\* expiry more than 2 minutes ahead, never one that is reached or past.
C22_BufferedExpiry ==
    /\ [][\A t \in Threads :
            /\ (calls[t].pc = "http" /\ calls'[t].pc = "lock_store" /\ ~calls'[t].expErr)
                 => (/\ Len(issued') = Len(issued) + 1
                     /\ issued'[Len(issued')].ok
                     /\ issued'[Len(issued')].token = calls'[t].tok
                     /\ calls'[t].exp = issued'[Len(issued')].expiresAt - Minute)
            /\ (calls[t].pc = "store" /\ calls'[t].pc = "idle")
                 => (cache'[calls[t].id].expiry = calls[t].exp)
            /\ (LeavesLookup(t) /\ calls'[t].pc = "idle" /\ last'.cred # EmptyString)
                 => (/\ last'.path = "hit"
                     /\ \A n \in AnswersWith(last'.cred) :
                           /\ issued[n].expiresAt - now > Minute + Minute
                           /\ issued[n].expiresAt > now)]_vars
    /\ [](\A i \in DOMAIN cache :
            \A n \in AnswersWith(cache[i].token) :
                cache[i].token # EmptyString
                    => cache[i].expiry = issued[n].expiresAt - Minute)

\* A token the issuer gave MaxLifetime minutes was served from the cache
\* while its issuer expiry was more than two minutes ahead, and is in the
\* cache under the issuer's expiry less one minute.
C22_Witness ==
    /\ last.path = "hit"
    /\ last.cred # EmptyString
    /\ AnswersWith(last.cred) # {}
    /\ \A n \in AnswersWith(last.cred) :
          /\ issued[n].expiresAt - now > Minute + Minute
          /\ cache[last.id].expiry = issued[n].expiresAt - Minute

\* s without its leading and trailing whitespace.
Trimmed(s) ==
    IF \A i \in 1..Len(s) : s[i] \in WhiteSpace THEN EmptyString
    ELSE LET first == CHOOSE i \in 1..Len(s) :
                        s[i] \notin WhiteSpace /\ \A j \in 1..(i - 1) : s[j] \in WhiteSpace
             final == CHOOSE i \in 1..Len(s) :
                        s[i] \notin WhiteSpace /\ \A j \in (i + 1)..Len(s) : s[j] \in WhiteSpace
         IN  SubSeq(s, first, final)

\* The header is empty, has no space, has a scheme word other than bearer in
\* any case, or has only whitespace after the first space.
HasNoBearerToken(a) ==
    \/ Len(a) = 0
    \/ \A i \in 1..Len(a) : a[i] # " "
    \/ ToLower(SchemeOf(a)) # <<"b", "e", "a", "r", "e", "r">>
    \/ Trimmed(CredentialsOf(a)) = EmptyString

C24_StatusStaysCommitted ==
    /\ [](\A t \in Threads :
            /\ (reqs[t].pc = "serving")
                 => (reqs[t].resp = ErrorResponse(200, "") /\ ~reqs[t].closed)
            /\ reqs[t].logged
                 => (/\ reqs[t].pc = "none"
                     /\ reqs[t].closed
                     /\ reqs[t].resp = ErrorResponse(200, ""))
            /\ reqs[t].closed => (reqs[t].pc = "none" /\ reqs[t].resp.status = 200))
    /\ [][\A t \in Threads :
            (reqs[t].pc = "serving" /\ reqs'[t] # reqs[t])
                => (/\ reqs'[t].pc = "none"
                    /\ reqs'[t].closed
                    /\ reqs'[t].resp = reqs[t].resp
                    /\ UNCHANGED <<cache, mu, calls, last, nMint, boot>>)]_vars

\* The protocol handler of a request served with a minted token returned an
\* error; the request ended with its status 200.
C24_Witness ==
    \E t \in Threads :
        /\ reqs[t].pc = "none"
        /\ reqs[t].logged
        /\ reqs[t].closed
        /\ reqs[t].resp.status = 200
        /\ last.path = "minted"

\* The type the precedence of the upstream-error classification gives.
ClassifiedType(resp, err) ==
    CASE resp.nil -> "github_api_error"
      [] ~resp.nil /\ resp.StatusCode = 403 /\ resp.Rate.Remaining = 0 -> "rate_limit_exceeded"
      [] ~resp.nil /\ resp.StatusCode = 403 /\ resp.Rate.Remaining # 0 -> "authorization_error"
      [] ~resp.nil /\ resp.StatusCode = 401 -> "authentication_error"
      [] ~resp.nil /\ resp.StatusCode = 404 -> "not_found"
      [] ~resp.nil /\ resp.StatusCode \notin {401, 403, 404} /\ err.kind = "github"
            -> "github_api_error"
      [] ~resp.nil /\ resp.StatusCode \in {400, 422} /\ err.kind # "github"
            -> "validation_error"
      [] OTHER -> "github_api_error"

\* The HTTP status each type of the classification is written with.
StatusOfType ==
    ( "rate_limit_exceeded" :> 429 ) @@ ( "authorization_error" :> 403 ) @@
    ( "authentication_error" :> 401 ) @@ ( "not_found" :> 404 ) @@
    ( "validation_error" :> 400 ) @@ ( "github_api_error" :> 500 )

\* C25: an upstream failure is classified by a fixed precedence: a nil
\* response is github_api_error; 403 with rate-limit remaining 0 is
\* rate_limit_exceeded, any other 403 authorization_error; 401 is
\* authentication_error; 404 is not_found; then an error of GitHub
\* ErrorResponse type is github_api_error with its field errors, 422 and 400
\* included; then 422 and 400 are validation_error; the rest is
\* github_api_error.  WriteGitHubAPIError sends the status that goes with the
\* type.
C25_ErrorPrecedence ==
    (api.pc = "written")
    => /\ api.out.Type = ClassifiedType(api.resp, api.err)
       /\ api.status = StatusOfType[api.out.Type]
       /\ api.status = MapErrorTypeToHTTPStatus(api.out.Type)
       /\ (/\ ~api.resp.nil
           /\ api.resp.StatusCode \notin {401, 403, 404}
           /\ api.err.kind = "github")
            => /\ api.out.Data["errors"] = api.err.Errors
               /\ api.out.Data["status_code"] = api.resp.StatusCode
       /\ api.resp.nil => (DOMAIN api.out.Data = {})

\* A 422 that came with a GitHub ErrorResponse carrying a field error was
\* written as github_api_error with status 500 and that field error.
C25_Witness ==
    /\ api.pc = "written"
    /\ api.resp.StatusCode = 422
    /\ api.err.kind = "github"
    /\ Len(api.err.Errors) = 1
    /\ api.out.Type = "github_api_error"
    /\ api.out.Data["errors"] = api.err.Errors
    /\ api.status = 500

\* C26: the cache is read and written only by the goroutine that holds the
\* mutex, which lets go of it with that very step; no goroutine holds the
\* mutex while it mints or after it returned; a call that needs no mint is
\* never kept waiting by a mint that stalls: calls of unmapped, direct and
\* malformed keys can always be made and return at once, a call waiting for
\* the mutex gets through its cache check, and a call with a minted token gets
\* to store it.
C26_MutexNeverBlocks ==
    /\ [](\A t \in Threads :
            (calls[t].pc \in {"idle", "lock_lookup", "mint", "http", "lock_store"})
                => (mu # t))
    /\ [][/\ (cache' # cache)
               => (\E t \in Threads :
                      mu = t /\ calls[t].pc = "store" /\ mu' = "free" /\ calls'[t].pc = "idle")
          /\ \A t \in Threads :
               LeavesLookup(t) => (mu = t /\ mu' = "free" /\ cache' = cache)]_vars
    /\ [](\A t \in Threads :
            (calls[t].pc = "idle")
                => /\ ENABLED ResolveUnmapped(t, "kU")
                   /\ ENABLED ResolveDirect(t, "kD")
                   /\ ENABLED ResolveInvalidId(t, "kX")
                   /\ ENABLED ResolveInstallation(t, "kA"))
    /\ \A t \in Threads :
          (calls[t].pc = "lock_lookup") ~> (calls[t].pc \in {"idle", "mint"})
    /\ \A t \in Threads :
          (calls[t].pc = "lock_store") ~> (calls[t].pc = "idle")

\* While the mint request of one goroutine is in flight, another call for
\* the same installation has been answered from the cache and the mutex is
\* free.
C26_Witness ==
    \E t \in Threads :
        /\ calls[t].pc = "http"
        /\ last.path = "hit"
        /\ last.id = calls[t].id
        /\ mu = "free"

\* C27 as stated: a write for an installation never replaces the stored
\* entry with one whose expiry is earlier.
C27_NeverRegresses ==
    [][\A i \in DOMAIN cache :
          i \in DOMAIN cache' /\ cache'[i].expiry >= cache[i].expiry]_vars

\* C27, amended: the last write wins.  An entry changes only by the store
\* step of a call for that installation, and that step puts the call's own
\* token and expiry in place of whatever is stored, an entry with a later
\* expiry included; so the entry left after concurrent mints is the one
\* written last, not the one with the latest expiry.
C27_LastWriteWins ==
    [][/\ \A i \in DOMAIN cache' :
            (i \notin DOMAIN cache \/ cache'[i] # cache[i])
                => \E t \in Threads :
                      /\ calls[t].pc = "store"
                      /\ calls'[t].pc = "idle"
                      /\ calls[t].id = i
       /\ \A t \in Threads :
            (calls[t].pc = "store" /\ calls'[t].pc = "idle")
                => /\ DOMAIN cache' = DOMAIN cache \cup {calls[t].id}
                   /\ cache'[calls[t].id] = [token |-> calls[t].tok, expiry |-> calls[t].exp]
                   /\ \A i \in DOMAIN cache \ {calls[t].id} : cache'[i] = cache[i]]_vars

\* Two concurrent mints of installation 1 have finished; the entry that is
\* left is the first answer's, though the second answer expires later.
C27_Witness ==
    /\ \A t \in Threads : calls[t].pc = "idle"
    /\ Len(issued) = 2
    /\ issued[1].token \in TokensOf(1)
    /\ issued[2].token \in TokensOf(1)
    /\ issued[2].expiresAt > issued[1].expiresAt
    /\ 1 \in DOMAIN cache
    /\ cache[1].token = issued[1].token
    /\ cache[1].expiry = issued[1].expiresAt - Minute
    /\ last.path = "minted"
    /\ last.cred = issued[1].token

\* C28: a call that returns found = true along the installation path
\* returns a non-empty token; a 2xx answer whose body has no token or an empty
\* one fails the mint: found = false and nothing is written to the cache.
C28_NoEmptyCredential ==
    /\ (last.found /\ last.path \in {"hit", "minted"}) => (last.cred # EmptyString)
    /\ \A i \in DOMAIN cache : cache[i].token # EmptyString
    /\ \A t \in Threads :
          (calls[t].pc \in {"lock_store", "store"}) => (calls[t].tok # EmptyString)

\* C29: a credential returned with found = true along the installation
\* path, from the cache or freshly minted, has a stored expiry more than one
\* minute ahead at the moment it is returned.
C29_ReturnedOutsideMargin ==
    [][\A t \in Threads :
          (/\ calls[t].pc \in {"lookup", "store"}
           /\ calls'[t].pc = "idle"
           /\ last'.found)
          => (/\ calls[t].id \in DOMAIN cache'
              /\ cache'[calls[t].id].token = last'.cred
              /\ cache'[calls[t].id].expiry - now > Minute)]_vars

\* The installation ids the mapping values name.
NamedInstallations ==
    { IdOfKey(k) : k \in { j \in DOMAIN mapping :
                             /\ StartsWithInstallation(mapping[j])
                             /\ ~ParseInt(TrimPrefix(mapping[j], InstallationPrefix)).err } }

\* Some call returns with this step without having stored a token: an
\* unmapped, direct or malformed key, a cache hit or a failed mint.
ReturnsWithoutStore ==
    \/ ReturnsAtOnce /\ last' # last
    \/ \E t \in Threads :
          calls[t].pc \in {"lookup", "mint", "http"} /\ calls'[t].pc = "idle"

\* C30: the cache holds one entry (a token and an expiry) under each of its
\* installation ids, and only ids that a mapping value names; no step removes
\* an entry; an entry is created or changed only by the store step of a
\* successful mint for its id, which leaves the other entries alone; failed
\* mints, cache hits and the resolutions of direct, malformed and unmapped
\* keys leave the cache as it is.
C30_EntriesOnlyOverwritten ==
    /\ [](/\ DOMAIN cache \subseteq NamedInstallations
          /\ \A i \in DOMAIN cache : DOMAIN cache[i] = {"token", "expiry"})
    /\ [][/\ DOMAIN cache \subseteq DOMAIN cache'
          /\ (cache' # cache)
               => (/\ last'.path = "minted"
                   /\ last'.found
                   /\ \E t \in Threads : calls[t].pc = "store" /\ calls[t].id = last'.id
                   /\ \A i \in DOMAIN cache \ {last'.id} : cache'[i] = cache[i]
                   /\ DOMAIN cache' = DOMAIN cache \cup {last'.id})
          /\ ReturnsWithoutStore => (cache' = cache)]_vars

\* The cache holds an entry for each of the two installations, and the
\* failed mint of a call that found the entry of installation 1 stale has
\* left both in place.
C30_Witness ==
    /\ DOMAIN cache = {1, 2}
    /\ last.path = "mint_failed"
    /\ last.id = 1
    /\ ~last.elapsed
    /\ cache[1].expiry - now <= Minute

====
